---- MODULE Spec2Model ----
(***************************************************************************)
(* State-machine model of the anti2api-go protocol-translation proxy:      *)
(* the Claude SSE emitter, the OpenAI SSE writer with its UTF-8 boundary   *)
(* buffer, the account store (credential pool) and its mutex, the upstream *)
(* retry loop, the bypass streaming handler with its heartbeat goroutine,  *)
(* the OpenAI streaming handler, the translation of Claude messages to     *)
(* Antigravity contents, the model names and GenerationConfig of a         *)
(* request, the API key middleware, the route handlers up to the dispatch  *)
(* of a request, the streaming handlers under a failing parser or          *)
(* receiver, the account pointer a request holds while the store changes,  *)
(* the translation of OpenAI messages to contents, the sanitization of     *)
(* Gemini request contents, the conversion of an upstream response to an   *)
(* OpenAI completion, and the line reader of the upstream SSE body.        *)
(*                                                                         *)
(* Each component has its own specification (SpecClaude, SpecUtf8, ...):   *)
(* its Init puts the other components in their idle state and its Next     *)
(* leaves their variables unchanged.                                       *)
(***************************************************************************)
EXTENDS Integers, Sequences, FiniteSets, TLC

VARIABLES
    \* ---- claude.SSEEmitter (one instance per streaming response)
    nextIndex,            \* e.nextIndex
    textBlockIndex,       \* e.textBlockIndex  (NilIndex when nil)
    thinkingBlockIndex,   \* e.thinkingBlockIndex (NilIndex when nil)
    finished,             \* e.finished
    hasToolCalls,         \* e.hasToolCalls
    pendingSignature,     \* e.pendingSignature ("" when none)
    totalOutputTokens,    \* e.totalOutputTokens
    inputTokens,          \* e.inputTokens
    events,               \* the SSE events written to the client, in order
    cpc,                  \* position of handleClaudeStreamRequest
    fed,                  \* number of ProcessPart calls made so far
    history,              \* the parts given to ProcessPart and the first Finish, in order
    \* ---- openai.SSEWriter (one instance per streaming response)
    sentRole,             \* sw.sentRole
    contentBuffer,        \* sw.contentBuffer, a sequence of bytes
    reasoningBuffer,      \* sw.reasoningBuffer, a sequence of bytes
    toolCalls,            \* sw.toolCalls
    frames,               \* the SSE frames written to the client, in order
    wpc,                  \* "idle", "open" or "finished": the writer's lifecycle
    pending,              \* bytes of the upstream text not yet written
    inContent,            \* concatenation of the WriteContent arguments so far
    inReasoning,          \* concatenation of the WriteReasoning arguments so far
    \* ---- store.AccountStore
    accounts,             \* s.accounts
    currentIndex,         \* s.currentIndex, 0-based
    now,                  \* time.Now().UnixMilli()
    returned,             \* what the call that has just returned gave its caller
    refreshes,            \* the refreshToken calls it made: <<position, outcome>>, in order
    log,                  \* e-mails of the accounts GetToken returned, in order
    cut,                  \* number of GetToken calls made before SetEnable, -1 before it
    \* ---- vertex.Client.WithRetry (one call)
    RetryMaxAttempts,     \* c.config.RetryMaxAttempts
    RetryStatusCodes,     \* c.config.RetryStatusCodes
    rpc,                  \* "idle", "call" (loop head), "wait" (in the select), "done"
    attempt,              \* the loop variable
    lastErr,              \* lastErr
    delay,                \* the delay of the wait in progress, ms
    timerFired,           \* time.After(delay) has fired
    cancelled,            \* ctx is done
    retryResult,          \* what WithRetry returned
    calls,                \* number of invocations of operation
    waits,                \* the delays waited in full, in order
    outcomes,             \* what each invocation of operation returned
    \* ---- handlers.handleBypassStream (one request)
    bpc,                  \* position of the handler
    hpc,                  \* position of the heartbeat goroutine
    tick,                 \* ticker.C holds a tick (its buffer has room for one)
    clientGone,           \* the client has disconnected: r.Context() is done
    seconds,              \* seconds elapsed since the ticker was started
    latency,              \* those of them elapsed while GenerateContent was outstanding
    resp,                 \* what GenerateContent returned
    arrivedAt,            \* number of frames written when done was closed, -1 before
    \* ---- claude.convertClaudeMessagesToContents (one request)
    messages,             \* the messages of the Claude request
    thinkingEnabled,      \* the thinkingEnabled argument
    contents,             \* the contents returned
    vpc,                  \* "request" before the conversion, "converted" after it
    \* ---- store.AccountStore.mu and the goroutines calling the store
    muWriter,             \* the goroutine holding s.mu.Lock(), 0 when none
    muReaders,            \* the goroutines holding s.mu.RLock()
    proc,                 \* each goroutine's position in its store call
    inflight,             \* the refreshToken calls outstanding: <<goroutine, position>>
    \* ---- handlers.handleStream (one non-bypass OpenAI streaming request)
    spc,                  \* position of the handler
    upstream,             \* the upstream chunks handed to the callback so far
    \* ---- ConvertClaudeToAntigravity / ConvertOpenAIToAntigravity: model name and GenerationConfig (one request)
    genRequest,           \* the client's request: dialect, model, max_tokens, thinking, tools, prefill
    genResult,            \* the model name and GenerationConfig sent upstream
    gpc,                  \* "request" before the conversion, "built" or "rejected" after it
    \* ---- handlers.RequireAPIKey (one request)
    apiKey,               \* cfg.APIKey
    authRequest,          \* the request's Authorization, x-api-key, x-goog-api-key headers and key query parameter
    authOutcome,          \* "" before the middleware ran, then "next" or "401"
    \* ---- handlers.HandleChatCompletions / HandleChatCompletionsWithCredential / HandleClaudeMessages (one request)
    routeRequest,         \* the request: route, body, stream, model and the credential of the path
    acquisition,          \* the store call the handler made and whether it returned an error
    httpStatus,           \* the status the handler itself wrote, 0 when none
    handler,              \* the request handler called with the token, "" when none
    qpc,                  \* "request" before the handler ran, "done" after it
    \* ---- handleStreamRequest / handleClaudeStreamRequest with a failing parser or receiver (one response)
    served,               \* "openai" or "claude": which handler serves the response
    apc,                  \* "start", "streaming", "ended" (the parser returned) or "finished"
    cause,                \* why the parser returned: "eof", "read error" or "receiver error"
    writeFailed,          \* a write to the client's ResponseWriter has failed
    received,             \* number of chunks (OpenAI) or parts (Claude) given to the receiver
    resultFinishReason,   \* streamResult.FinishReason
    finishCalls,          \* number of WriteFinish / Finish calls of the handler
    \* ---- *store.Account handed to a request while the store is modified (one request)
    backing,              \* backing array of s.accounts, its length being the capacity
    token,                \* slot of the *Account the request holds, 0 when it holds none
    tokenShared,          \* whether s.accounts still lives in the array the token points into
    detachedAccount,      \* what the token denotes once the store has left that array
    handedOut,            \* the account GetToken returned, as it was at the return
    \* ---- openai.convertMessages (one message list)
    openaiMessages,       \* the OpenAI messages of the request
    openaiContents,       \* result, the Contents built so far
    opc,                  \* number of messages the loop has gone through
    \* ---- gemini.sanitizeRequestContents (one request)
    geminiContents,       \* the Contents of the Gemini request
    sanitized,            \* what sanitizeRequestContents returned
    npc,                  \* "call" before the call, "done" after it
    \* ---- openai.ConvertToOpenAIResponse in the non-streaming and bypass handlers (one response)
    upstreamCandidates,   \* the Candidates of the upstream response, each the parts of its Content
    completion,           \* the OpenAIChatCompletion, NoCompletion before the call, Panicked after a panic
    kpc,                  \* "convert" before the handler converts, "done" after it
    \* ---- vertex.ParseStreamWithResult reading the upstream body (one response)
    sseLines,             \* the lines of the upstream body
    lastTerminated,       \* whether the last line of the body ends with a newline
    lpos,                 \* number of lines ReadString has returned
    delivered,            \* the payloads passed to the receiver, in order
    ppc                   \* "read" while the loop runs, "done" after it

claudeVars == <<nextIndex, textBlockIndex, thinkingBlockIndex, finished,
                hasToolCalls, pendingSignature, totalOutputTokens,
                inputTokens, events, cpc, fed, history>>

writerVars == <<sentRole, contentBuffer, reasoningBuffer, toolCalls, frames>>

utf8Vars == <<wpc, pending, inContent, inReasoning>>

poolVars == <<accounts, currentIndex, now, returned, refreshes>>

rotationVars == <<log, cut>>

retryVars == <<RetryMaxAttempts, RetryStatusCodes, rpc, attempt, lastErr, delay,
               timerFired, cancelled, retryResult, calls, waits, outcomes>>

bypassVars == <<bpc, hpc, tick, clientGone, seconds, latency, resp, arrivedAt>>

convertVars == <<messages, thinkingEnabled, contents, vpc>>

lockVars == <<muWriter, muReaders, proc, inflight>>

streamVars == <<spc, upstream>>

configVars == <<genRequest, genResult, gpc>>

authVars == <<apiKey, authRequest, authOutcome>>

routeVars == <<routeRequest, acquisition, httpStatus, handler, qpc>>

abortVars == <<served, apc, cause, writeFailed, received,
               resultFinishReason, finishCalls>>

pointerVars == <<backing, token, tokenShared, detachedAccount, handedOut>>

openaiVars == <<openaiMessages, openaiContents, opc>>

geminiVars == <<geminiContents, sanitized, npc>>

responseVars == <<upstreamCandidates, completion, kpc>>

parseVars == <<sseLines, lastTerminated, lpos, delivered, ppc>>

vars == <<claudeVars, writerVars, utf8Vars, poolVars, rotationVars,
          retryVars, bypassVars, convertVars, lockVars, streamVars,
          configVars, authVars, routeVars, abortVars, pointerVars,
          openaiVars, geminiVars, responseVars, parseVars>>

\* What the actions of one component leave alone.
otherThanClaude == <<writerVars, utf8Vars, poolVars, rotationVars, retryVars,
                     bypassVars, convertVars, lockVars, streamVars,
                     configVars, authVars, routeVars, abortVars, pointerVars,
                     openaiVars, geminiVars, responseVars, parseVars>>

otherThanUtf8 == <<claudeVars, poolVars, rotationVars, retryVars, bypassVars,
                   convertVars, lockVars, streamVars, configVars, authVars,
                   routeVars, abortVars, pointerVars, openaiVars, geminiVars,
                   responseVars, parseVars>>

otherThanPool == <<claudeVars, writerVars, utf8Vars, retryVars, bypassVars,
                   convertVars, lockVars, streamVars, configVars, authVars,
                   routeVars, abortVars, pointerVars, openaiVars, geminiVars,
                   responseVars, parseVars>>

otherThanRetry == <<claudeVars, writerVars, utf8Vars, poolVars, rotationVars,
                    bypassVars, convertVars, lockVars, streamVars,
                    configVars, authVars, routeVars, abortVars, pointerVars,
                    openaiVars, geminiVars, responseVars, parseVars>>

otherThanBypass == <<claudeVars, utf8Vars, poolVars, rotationVars, retryVars,
                     convertVars, lockVars, streamVars, configVars, authVars,
                     routeVars, abortVars, pointerVars, openaiVars,
                     geminiVars, responseVars, parseVars>>

otherThanConvert == <<claudeVars, writerVars, utf8Vars, poolVars,
                      rotationVars, retryVars, bypassVars, lockVars,
                      streamVars, configVars, authVars, routeVars, abortVars,
                      pointerVars, openaiVars, geminiVars, responseVars,
                      parseVars>>

\* The store calls of the goroutines act on accounts and currentIndex too.
otherThanLock == <<claudeVars, writerVars, utf8Vars, retryVars, bypassVars,
                   convertVars, streamVars, configVars, authVars, routeVars,
                   abortVars, pointerVars, openaiVars, geminiVars,
                   responseVars, parseVars>>

\* The handler writes through its SSEWriter.
otherThanStream == <<claudeVars, utf8Vars, poolVars, rotationVars, retryVars,
                     bypassVars, convertVars, lockVars, configVars, authVars,
                     routeVars, abortVars, pointerVars, openaiVars,
                     geminiVars, responseVars, parseVars>>

otherThanConfig == <<claudeVars, writerVars, utf8Vars, poolVars,
                     rotationVars, retryVars, bypassVars, convertVars,
                     lockVars, streamVars, authVars, routeVars, abortVars,
                     pointerVars, openaiVars, geminiVars, responseVars,
                     parseVars>>

otherThanAuth == <<claudeVars, writerVars, utf8Vars, poolVars, rotationVars,
                   retryVars, bypassVars, convertVars, lockVars, streamVars,
                   configVars, routeVars, abortVars, pointerVars, openaiVars,
                   geminiVars, responseVars, parseVars>>

otherThanRoute == <<claudeVars, writerVars, utf8Vars, poolVars, rotationVars,
                    retryVars, bypassVars, convertVars, lockVars, streamVars,
                    configVars, authVars, abortVars, pointerVars, openaiVars,
                    geminiVars, responseVars, parseVars>>

\* The handlers write through the SSEWriter and the SSEEmitter.
otherThanAbort == <<utf8Vars, poolVars, rotationVars, retryVars, bypassVars,
                    convertVars, lockVars, streamVars, configVars, authVars,
                    routeVars, pointerVars, openaiVars, geminiVars,
                    responseVars, parseVars>>

otherThanPointer == <<claudeVars, writerVars, utf8Vars, rotationVars,
                      retryVars, bypassVars, convertVars, lockVars,
                      streamVars, configVars, authVars, routeVars, abortVars,
                      openaiVars, geminiVars, responseVars, parseVars>>

otherThanOpenAI == <<claudeVars, writerVars, utf8Vars, poolVars,
                     rotationVars, retryVars, bypassVars, convertVars,
                     lockVars, streamVars, configVars, authVars, routeVars,
                     abortVars, pointerVars, geminiVars, responseVars,
                     parseVars>>

otherThanGemini == <<claudeVars, writerVars, utf8Vars, poolVars,
                     rotationVars, retryVars, bypassVars, convertVars,
                     lockVars, streamVars, configVars, authVars, routeVars,
                     abortVars, pointerVars, openaiVars, responseVars,
                     parseVars>>

otherThanResponse == <<claudeVars, writerVars, utf8Vars, poolVars,
                       rotationVars, retryVars, bypassVars, convertVars,
                       lockVars, streamVars, configVars, authVars, routeVars,
                       abortVars, pointerVars, openaiVars, geminiVars,
                       parseVars>>

otherThanParse == <<claudeVars, writerVars, utf8Vars, poolVars, rotationVars,
                    retryVars, bypassVars, convertVars, lockVars, streamVars,
                    configVars, authVars, routeVars, abortVars, pointerVars,
                    openaiVars, geminiVars, responseVars>>

------------------------------------------------------------------------------
(***************************************************************************)
(* Claude SSE emitter                                                      *)
(***************************************************************************)

\* Bound on the number of parts fed to one emitter.
MaxParts == 3

\* A nil *int block index.
NilIndex == -1

ThoughtTexts == {"", "abc", "def"}
Signatures == {"", "S1", "S2"}

\* json.Marshal of the FunctionCall args map: a nil map marshals to "null".
marshalArgs(args) ==
    IF args = "nil" THEN "null" ELSE args

\* len(text) of the texts the model feeds.
TextLen(t) ==
    CASE t = "" -> 0
      [] t = "hi" -> 2
      [] t = "abc" -> 3
      [] t = "def" -> 3
      [] t = "{}" -> 2
      [] t = "{\"a\":1}" -> 7

EstimateClaudeTokens(text) ==
    IF text = "" THEN 0
    ELSE IF TextLen(text) \div 4 < 1 THEN 1 ELSE TextLen(text) \div 4

NoCall == <<>>
Call(id, name, args) == <<[id |-> id, name |-> name, args |-> args]>>

\* The StreamDataPart values fed to ProcessPart.
Parts ==
    [thought : {TRUE}, text : ThoughtTexts, fc : {NoCall}, sig : Signatures]
    \cup [thought : {FALSE}, text : {"hi"},
          fc : {NoCall, Call("T1", "f", "{\"a\":1}")}, sig : {""}]
    \cup [thought : {FALSE}, text : {""},
          fc : {NoCall, Call("T1", "f", "{\"a\":1}"), Call("", "g", "nil")},
          sig : {"", "S1"}]

\* The usage handed to Finish: nil, or upstream's counts.
NoUsage == [set |-> FALSE, CompletionTokens |-> 0, PromptTokens |-> 0]
Usages ==
    {NoUsage,
     [set |-> TRUE, CompletionTokens |-> 7, PromptTokens |-> 5],
     [set |-> TRUE, CompletionTokens |-> 0, PromptTokens |-> 0]}

Ev(type, index, kind, data) ==
    [type |-> type, index |-> index, kind |-> kind, data |-> data,
     inTokens |-> 0, outTokens |-> 0]

Emitter ==
    [nextIndex |-> nextIndex, textBlockIndex |-> textBlockIndex,
     thinkingBlockIndex |-> thinkingBlockIndex, finished |-> finished,
     hasToolCalls |-> hasToolCalls, pendingSignature |-> pendingSignature,
     totalOutputTokens |-> totalOutputTokens, inputTokens |-> inputTokens,
     events |-> events]

SetEmitter(e) ==
    /\ nextIndex' = e.nextIndex
    /\ textBlockIndex' = e.textBlockIndex
    /\ thinkingBlockIndex' = e.thinkingBlockIndex
    /\ finished' = e.finished
    /\ hasToolCalls' = e.hasToolCalls
    /\ pendingSignature' = e.pendingSignature
    /\ totalOutputTokens' = e.totalOutputTokens
    /\ inputTokens' = e.inputTokens
    /\ events' = e.events

EmitterIs(e) ==
    /\ nextIndex = e.nextIndex
    /\ textBlockIndex = e.textBlockIndex
    /\ thinkingBlockIndex = e.thinkingBlockIndex
    /\ finished = e.finished
    /\ hasToolCalls = e.hasToolCalls
    /\ pendingSignature = e.pendingSignature
    /\ totalOutputTokens = e.totalOutputTokens
    /\ inputTokens = e.inputTokens
    /\ events = e.events

NewSSEEmitter(tokens) ==
    [nextIndex |-> 0, textBlockIndex |-> NilIndex,
     thinkingBlockIndex |-> NilIndex, finished |-> FALSE,
     hasToolCalls |-> FALSE, pendingSignature |-> "",
     totalOutputTokens |-> 0, inputTokens |-> tokens, events |-> <<>>]

writeSSE(e, ev) ==
    [e EXCEPT !.events = Append(@, ev)]

\* A plausible slip: the text block takes the counter's value and the counter
\* is not advanced.
ensureTextBlockKeepsCounter(e) ==
    IF e.textBlockIndex # NilIndex THEN e
    ELSE writeSSE([e EXCEPT !.textBlockIndex = e.nextIndex],
                  Ev("content_block_start", e.nextIndex, "text", ""))

ensureTextBlock(e) ==
    IF e.textBlockIndex # NilIndex THEN e
    ELSE writeSSE([e EXCEPT !.nextIndex = @ + 1,
                            !.textBlockIndex = e.nextIndex],
                  Ev("content_block_start", e.nextIndex, "text", ""))

ensureThinkingBlock(e) ==
    IF e.thinkingBlockIndex # NilIndex THEN e
    ELSE writeSSE([e EXCEPT !.nextIndex = @ + 1,
                            !.thinkingBlockIndex = e.nextIndex],
                  Ev("content_block_start", e.nextIndex, "thinking", ""))

closeTextBlock(e) ==
    IF e.textBlockIndex = NilIndex THEN e
    ELSE writeSSE([e EXCEPT !.textBlockIndex = NilIndex],
                  Ev("content_block_stop", e.textBlockIndex, "", ""))

\* A plausible slip: the block is stopped first and the signature sent after.
closeThinkingBlockStopFirst(e) ==
    IF e.thinkingBlockIndex = NilIndex THEN e
    ELSE LET index == e.thinkingBlockIndex
             e1 == writeSSE([e EXCEPT !.thinkingBlockIndex = NilIndex],
                            Ev("content_block_stop", index, "", ""))
         IN  IF e.pendingSignature # ""
             THEN [writeSSE(e1, Ev("content_block_delta", index,
                                   "signature_delta", e.pendingSignature))
                      EXCEPT !.pendingSignature = ""]
             ELSE e1

closeThinkingBlock(e) ==
    IF e.thinkingBlockIndex = NilIndex THEN e
    ELSE LET index == e.thinkingBlockIndex
             e1 == [e EXCEPT !.thinkingBlockIndex = NilIndex]
             e2 == IF e1.pendingSignature # ""
                   THEN [writeSSE(e1, Ev("content_block_delta", index,
                                         "signature_delta", e1.pendingSignature))
                            EXCEPT !.pendingSignature = ""]
                   ELSE e1
         IN  writeSSE(e2, Ev("content_block_stop", index, "", ""))

sendTextLocked(e, text) ==
    IF text = "" THEN e
    ELSE LET e1 == closeThinkingBlock(e)
             e2 == ensureTextBlock(e1)
             e3 == [e2 EXCEPT !.totalOutputTokens = @ + EstimateClaudeTokens(text)]
         IN  writeSSE(e3, Ev("content_block_delta", e3.textBlockIndex,
                             "text_delta", text))

\* A plausible slip: thinking is opened without closing the open text block.
sendThinkingLockedNested(e, thinking) ==
    IF thinking = "" THEN e
    ELSE LET e2 == ensureThinkingBlock(e)
             e3 == [e2 EXCEPT !.totalOutputTokens = @ + EstimateClaudeTokens(thinking)]
         IN  writeSSE(e3, Ev("content_block_delta", e3.thinkingBlockIndex,
                             "thinking_delta", thinking))

sendThinkingLocked(e, thinking) ==
    IF thinking = "" THEN e
    ELSE LET e1 == closeTextBlock(e)
             e2 == ensureThinkingBlock(e1)
             e3 == [e2 EXCEPT !.totalOutputTokens = @ + EstimateClaudeTokens(thinking)]
         IN  writeSSE(e3, Ev("content_block_delta", e3.thinkingBlockIndex,
                             "thinking_delta", thinking))

\* tc is the ToolCallInfo: [id, name, args].
sendToolCallLocked(e, tc) ==
    LET e0 == [e EXCEPT !.hasToolCalls = TRUE]
        e1 == closeTextBlock(e0)
        e2 == closeThinkingBlock(e1)
        index == e2.nextIndex
        argsJSON == marshalArgs(tc.args)
        args == IF argsJSON = "" \/ argsJSON = "null" THEN "{}" ELSE argsJSON
        e3 == [e2 EXCEPT !.nextIndex = @ + 1,
                         !.totalOutputTokens = @ + EstimateClaudeTokens(args)]
        e4 == writeSSE(e3, Ev("content_block_start", index, "tool_use", tc.id))
        e5 == writeSSE(e4, Ev("content_block_delta", index, "input_json_delta", args))
    IN  writeSSE(e5, Ev("content_block_stop", index, "", ""))

\* utils.GenerateToolCallID: "call_" followed by a fresh uuid.
GenerateToolCallID == "call_uuid"

\* ProcessPart as a function of the emitter state.
processPart(e, part) ==
    IF part.thought
    THEN LET e1 == IF part.sig # ""
                   THEN [e EXCEPT !.pendingSignature = part.sig] ELSE e
         IN  sendThinkingLocked(e1, part.text)
    ELSE IF part.text # ""
    THEN sendTextLocked(e, part.text)
    ELSE IF part.fc # NoCall
    THEN LET call == part.fc[1]
             id == IF call.id = "" THEN GenerateToolCallID ELSE call.id
         IN  sendToolCallLocked(e, [id |-> id, name |-> call.name,
                                    args |-> call.args])
    ELSE e

GetClaudeStopReason(has) ==
    IF has THEN "tool_use" ELSE "end_turn"

\* A plausible slip: Finish does not close the open text block.
finishLeavesTextOpen(e, usage) ==
    IF e.finished THEN e
    ELSE LET e0 == [e EXCEPT !.finished = TRUE]
             e2 == closeThinkingBlock(e0)
             e3 == writeSSE(e2,
                     [Ev("message_delta", NilIndex,
                         GetClaudeStopReason(e2.hasToolCalls), "")
                        EXCEPT !.inTokens = e2.inputTokens,
                               !.outTokens = e2.totalOutputTokens])
         IN  writeSSE(e3, Ev("message_stop", NilIndex, "", ""))

finish(e, usage) ==
    IF e.finished THEN e
    ELSE LET e0 == [e EXCEPT !.finished = TRUE]
             e1 == closeTextBlock(e0)
             e2 == closeThinkingBlock(e1)
             outputTokens == IF usage.set /\ usage.CompletionTokens > 0
                             THEN usage.CompletionTokens
                             ELSE e2.totalOutputTokens
             inTok == IF usage.set /\ usage.PromptTokens > 0
                      THEN usage.PromptTokens ELSE e2.inputTokens
             e3 == writeSSE(e2,
                     [Ev("message_delta", NilIndex,
                         GetClaudeStopReason(e2.hasToolCalls), "")
                        EXCEPT !.inTokens = inTok, !.outTokens = outputTokens])
         IN  writeSSE(e3, Ev("message_stop", NilIndex, "", ""))

\* The entry of history that stands for the Finish call.
FinishMark == [thought |-> FALSE, text |-> "<finish>", fc |-> NoCall, sig |-> ""]

\* The emitter before any request uses it.
IdleClaude ==
    /\ EmitterIs(NewSSEEmitter(0))
    /\ cpc = "idle"
    /\ fed = 0
    /\ history = <<>>

\* handleClaudeStreamRequest: NewSSEEmitter followed by emitter.Start().
Start ==
    /\ cpc = "new"
    /\ cpc' = "streaming"
    /\ SetEmitter(writeSSE(Emitter,
          [Ev("message_start", NilIndex, "", "") EXCEPT !.inTokens = inputTokens]))
    /\ UNCHANGED <<fed, history, otherThanClaude>>

\* One call of emitter.ProcessPart from the stream parser's receiver.
ProcessPart ==
    /\ cpc = "streaming"
    /\ fed < MaxParts
    /\ \E part \in Parts :
          /\ SetEmitter(processPart(Emitter, part))
          /\ history' = Append(history, part)
    /\ fed' = fed + 1
    /\ UNCHANGED <<cpc, otherThanClaude>>

\* emitter.Finish(usage).
Finish ==
    /\ cpc = "streaming"
    /\ \E usage \in Usages : SetEmitter(finish(Emitter, usage))
    /\ history' = IF finished THEN history ELSE Append(history, FinishMark)
    /\ UNCHANGED <<cpc, fed, otherThanClaude>>

------------------------------------------------------------------------------
(***************************************************************************)
(* OpenAI SSE writer and its UTF-8 boundary buffer                         *)
(***************************************************************************)

\* Bound on the number of bytes of one upstream text.
MaxBytes == 4

\* The bytes texts are made of: 'a', the lead bytes of a 2-, 3- and 4-byte
\* character and a continuation byte.
Alphabet == {97, 195, 228, 240, 160}

\* "你好" in UTF-8.
NiHao == <<228, 189, 160, 229, 165, 189>>

IsCont(b) == b >= 128 /\ b < 192

\* utf8.DecodeRune at position i of s: the width of the well-formed character
\* that starts there, 0 when there is none (RuneError of width 1).
RuneLenAt(s, i) ==
    LET b == s[i]
        n == Len(s)
        cont(j) == i + j <= n /\ IsCont(s[i + j])
        second(lo, hi) == i + 1 <= n /\ s[i + 1] >= lo /\ s[i + 1] <= hi
    IN  IF b < 128 THEN 1
        ELSE IF b >= 194 /\ b <= 223 THEN (IF cont(1) THEN 2 ELSE 0)
        ELSE IF b = 224 THEN (IF second(160, 191) /\ cont(2) THEN 3 ELSE 0)
        ELSE IF b = 237 THEN (IF second(128, 159) /\ cont(2) THEN 3 ELSE 0)
        ELSE IF b >= 225 /\ b <= 239 THEN (IF cont(1) /\ cont(2) THEN 3 ELSE 0)
        ELSE IF b = 240
             THEN (IF second(144, 191) /\ cont(2) /\ cont(3) THEN 4 ELSE 0)
        ELSE IF b >= 241 /\ b <= 243
             THEN (IF cont(1) /\ cont(2) /\ cont(3) THEN 4 ELSE 0)
        ELSE IF b = 244
             THEN (IF second(128, 143) /\ cont(2) /\ cont(3) THEN 4 ELSE 0)
        ELSE 0

RECURSIVE ValidFrom(_, _)
ValidFrom(s, i) ==
    IF i > Len(s) THEN TRUE
    ELSE IF RuneLenAt(s, i) = 0 THEN FALSE
    ELSE ValidFrom(s, i + RuneLenAt(s, i))

\* utf8.Valid
Valid(s) == ValidFrom(s, 1)

\* json.Marshal of a string, read back by the client: every byte that does not
\* start a well-formed character is replaced by U+FFFD (EF BF BD).
RECURSIVE jsonFrom(_, _)
jsonFrom(s, i) ==
    IF i > Len(s) THEN <<>>
    ELSE IF RuneLenAt(s, i) = 0 THEN <<239, 191, 189>> \o jsonFrom(s, i + 1)
    ELSE SubSeq(s, i, i + RuneLenAt(s, i) - 1) \o jsonFrom(s, i + RuneLenAt(s, i))

jsonString(s) == jsonFrom(s, 1)

\* The first loop of extractValidUTF8: looking back over at most 4 bytes, the
\* position of a lead byte whose character is cut short by the end of data,
\* 0 when the loop leaves without returning.
RECURSIVE tailScan(_, _)
tailScan(data, i) ==
    LET n == Len(data)
        checkLen == IF n < 4 THEN n ELSE 4
    IN  IF i > checkLen THEN 0
        ELSE LET b == data[n - i + 1]
                 expectedLen == IF b >= 240 THEN 4 ELSE IF b >= 224 THEN 3 ELSE 2
             IN  IF b >= 192
                 THEN (IF i < expectedLen THEN n - i + 1 ELSE 0)
                 ELSE IF b >= 128 THEN tailScan(data, i + 1)
                 ELSE 0

\* The second loop of extractValidUTF8: the length of the longest prefix that
\* is valid.  When it is not empty the loop returns it with a nil remainder,
\* so the bytes stripped after it are lost; when it is empty the loop ends and
\* all bytes are returned as the remainder.
RECURSIVE longestValid(_, _)
longestValid(data, n) ==
    IF n = 0 THEN 0
    ELSE IF Valid(SubSeq(data, 1, n)) THEN n
    ELSE longestValid(data, n - 1)

\* A plausible slip: no boundary handling, all bytes are passed on at once.
extractValidUTF8Unbuffered(data) ==
    [valid |-> data, remaining |-> <<>>]

extractValidUTF8(data) ==
    IF data = <<>> THEN [valid |-> <<>>, remaining |-> <<>>]
    ELSE IF Valid(data) THEN [valid |-> data, remaining |-> <<>>]
    ELSE LET n == Len(data)
             p == tailScan(data, 1)
             k == longestValid(data, n)
         IN  IF p > 0
             THEN [valid |-> SubSeq(data, 1, p - 1),
                   remaining |-> SubSeq(data, p, n)]
             ELSE IF k > 0
             THEN [valid |-> SubSeq(data, 1, k), remaining |-> <<>>]
             ELSE [valid |-> <<>>, remaining |-> data]

\* One SSE frame: a chat.completion.chunk with its delta, the [DONE] marker or
\* an error object.  by tells which method wrote it.
Frame(kind, bytes, by) ==
    [kind |-> kind, bytes |-> bytes, calls |-> <<>>, reason |-> "",
     usage |-> "", by |-> by]

Writer ==
    [sentRole |-> sentRole, contentBuffer |-> contentBuffer,
     reasoningBuffer |-> reasoningBuffer, toolCalls |-> toolCalls,
     frames |-> frames]

SetWriter(sw) ==
    /\ sentRole' = sw.sentRole
    /\ contentBuffer' = sw.contentBuffer
    /\ reasoningBuffer' = sw.reasoningBuffer
    /\ toolCalls' = sw.toolCalls
    /\ frames' = sw.frames

WriterIs(sw) ==
    /\ sentRole = sw.sentRole
    /\ contentBuffer = sw.contentBuffer
    /\ reasoningBuffer = sw.reasoningBuffer
    /\ toolCalls = sw.toolCalls
    /\ frames = sw.frames

NewSSEWriter ==
    [sentRole |-> FALSE, contentBuffer |-> <<>>, reasoningBuffer |-> <<>>,
     toolCalls |-> <<>>, frames |-> <<>>]

\* WriteSSEData: json.Marshal of the chunk, written as one data: frame.
WriteSSEData(sw, frame) ==
    [sw EXCEPT !.frames = Append(@, frame)]

\* WriteSSEDone
WriteSSEDone(sw) ==
    [sw EXCEPT !.frames = Append(@, Frame("done", <<>>, "finish"))]

writeRoleLocked(sw) ==
    IF sw.sentRole THEN sw
    ELSE WriteSSEData([sw EXCEPT !.sentRole = TRUE], Frame("role", <<>>, "role"))

writeContentLocked(sw, content) ==
    LET sw1 == writeRoleLocked(sw)
        data == sw1.contentBuffer \o content
        r == extractValidUTF8(data)
        sw2 == [sw1 EXCEPT !.contentBuffer = r.remaining]
    IN  IF r.valid = <<>> THEN sw2
        ELSE WriteSSEData(sw2, Frame("content", r.valid, "write"))

writeReasoningLocked(sw, reasoning) ==
    LET sw1 == writeRoleLocked(sw)
        data == sw1.reasoningBuffer \o reasoning
        r == extractValidUTF8(data)
        sw2 == [sw1 EXCEPT !.reasoningBuffer = r.remaining]
    IN  IF r.valid = <<>> THEN sw2
        ELSE WriteSSEData(sw2, Frame("reasoning", r.valid, "write"))

\* json.Marshal(tc.Args), one OpenAIToolCall per accumulated call.
writeToolCallsLocked(sw, tcs) ==
    LET sw1 == writeRoleLocked(sw)
    IN  WriteSSEData(sw1, [Frame("tool_calls", <<>>, "write") EXCEPT !.calls = tcs])

\* A plausible slip: the reasoning buffer is flushed before the content buffer.
flushLockedReasoningFirst(sw) ==
    LET sw1 == IF Len(sw.reasoningBuffer) > 0
               THEN WriteSSEData([sw EXCEPT !.reasoningBuffer = <<>>],
                                 Frame("reasoning", sw.reasoningBuffer, "flush"))
               ELSE sw
    IN  IF Len(sw1.contentBuffer) > 0
        THEN WriteSSEData([sw1 EXCEPT !.contentBuffer = <<>>],
                          Frame("content", sw1.contentBuffer, "flush"))
        ELSE sw1

flushLocked(sw) ==
    LET sw1 == IF Len(sw.contentBuffer) > 0
               THEN WriteSSEData([sw EXCEPT !.contentBuffer = <<>>],
                                 Frame("content", sw.contentBuffer, "flush"))
               ELSE sw
    IN  IF Len(sw1.reasoningBuffer) > 0
        THEN WriteSSEData([sw1 EXCEPT !.reasoningBuffer = <<>>],
                          Frame("reasoning", sw1.reasoningBuffer, "flush"))
        ELSE sw1

\* A plausible slip: the finish chunk is written and [DONE] is not.
writeFinishWithoutDone(sw, reason, usage) ==
    WriteSSEData(flushLocked(sw), [Frame("finish", <<>>, "finish")
                                      EXCEPT !.reason = reason, !.usage = usage])

writeFinish(sw, reason, usage) ==
    LET sw1 == flushLocked(sw)
        sw2 == WriteSSEData(sw1, [Frame("finish", <<>>, "finish")
                                    EXCEPT !.reason = reason, !.usage = usage])
    IN  WriteSSEDone(sw2)

\* A plausible slip: the heartbeat sends the role chunk and nothing else.
writeHeartbeatRoleOnly(sw) ==
    writeRoleLocked(sw)

writeHeartbeat(sw) ==
    WriteSSEData(writeRoleLocked(sw), Frame("empty", <<>>, "heartbeat"))

\* The writer and the text source before any request uses them.
IdleWriter == WriterIs(NewSSEWriter)

IdleUtf8 ==
    /\ wpc = "idle"
    /\ pending = <<>>
    /\ inContent = <<>>
    /\ inReasoning = <<>>

\* All byte sequences of length at most n over Alphabet.
RECURSIVE BytesUpTo(_)
BytesUpTo(n) ==
    IF n = 0 THEN {<<>>}
    ELSE LET shorter == BytesUpTo(n - 1)
         IN  shorter \cup {Append(s, b) : s \in shorter, b \in Alphabet}

\* The upstream texts: every byte sequence within the bound, and "你好".
Texts == BytesUpTo(MaxBytes) \cup {NiHao}

\* sw.WriteContent(content), content being the next n bytes of the text.
WriteContent ==
    /\ wpc = "open"
    /\ \E n \in 0..Len(pending) :
          /\ SetWriter(writeContentLocked(Writer, SubSeq(pending, 1, n)))
          /\ inContent' = inContent \o SubSeq(pending, 1, n)
          /\ pending' = SubSeq(pending, n + 1, Len(pending))
    /\ UNCHANGED <<wpc, inReasoning, otherThanUtf8>>

\* sw.WriteReasoning(reasoning), reasoning being the next n bytes of the text.
WriteReasoning ==
    /\ wpc = "open"
    /\ \E n \in 0..Len(pending) :
          /\ SetWriter(writeReasoningLocked(Writer, SubSeq(pending, 1, n)))
          /\ inReasoning' = inReasoning \o SubSeq(pending, 1, n)
          /\ pending' = SubSeq(pending, n + 1, Len(pending))
    /\ UNCHANGED <<wpc, inContent, otherThanUtf8>>

\* sw.WriteFinish(reason, usage); the stream may end anywhere in the text.
WriteFinish ==
    /\ wpc = "open"
    /\ \E usage \in {"nil", "usage"} :
          SetWriter(writeFinish(Writer, "stop", usage))
    /\ wpc' = "finished"
    /\ UNCHANGED <<pending, inContent, inReasoning, otherThanUtf8>>

------------------------------------------------------------------------------
(***************************************************************************)
(* Credential pool (store.AccountStore)                                    *)
(***************************************************************************)

\* Bound on the clock, in ticks.
MaxNow == 3

\* Bounds on the GetToken calls of the rotation scenario, before and after
\* the SetEnable call.
MaxBefore == 9

MaxAfter == 6

\* IsExpired counts a token as expired 5 minutes (in ms) before its end.
RefreshMargin == 300000

\* The clock advances by this many ms per tick.
TickMs == 300000

\* expires_in values (seconds) a token response may carry: absent, no longer
\* than the margin, longer than the margin.
Lifetimes == {0, 300, 900}

\* What one call of the refresh function may do: fail, or store a new token
\* with the lifetime the token endpoint answered.
RefreshFailed == -1

RefreshOutcomes == {RefreshFailed} \cup Lifetimes

Account(email, project, enable, timestamp, expiresIn) ==
    [Email |-> email, ProjectID |-> project, Enable |-> enable,
     AccessToken |-> "t0", Timestamp |-> timestamp, ExpiresIn |-> expiresIn]

\* Account.IsExpired
IsExpired(a, t) ==
    IF a.Timestamp = 0 \/ a.ExpiresIn = 0 THEN TRUE
    ELSE t >= a.Timestamp + a.ExpiresIn * 1000 - RefreshMargin

\* auth.RefreshToken on success: the account after the token response.
RefreshToken(a, lifetime, t) ==
    [a EXCEPT !.AccessToken = "t1", !.ExpiresIn = lifetime, !.Timestamp = t]

NoAccount == 0

Result(accts, cur, idx, err, rs) ==
    [accounts |-> accts, currentIndex |-> cur, idx |-> idx, err |-> err,
     refreshes |-> rs]

\* A plausible slip: a failed refresh ends the call, as in GetTokenByProjectID.
RECURSIVE getTokenLoopFailFast(_, _, _, _, _, _)
getTokenLoopFailFast(accts, cur, attempts, t, out, rs) ==
    IF attempts >= Len(accts)
    THEN Result(accts, cur, NoAccount, "no token available", rs)
    ELSE LET i == cur + 1
             next == (cur + 1) % Len(accts)
         IN  IF ~accts[i].Enable
             THEN getTokenLoopFailFast(accts, next, attempts + 1, t, out, rs)
             ELSE IF IsExpired(accts[i], t)
             THEN IF out[i] = RefreshFailed
                  THEN Result(accts, next, NoAccount, "refresh failed",
                              Append(rs, <<i, out[i]>>))
                  ELSE Result([accts EXCEPT ![i] = RefreshToken(@, out[i], t)],
                              next, i, "", Append(rs, <<i, out[i]>>))
             ELSE Result(accts, next, i, "", rs)

\* A plausible slip: the failed account is looked at again instead of the
\* next one.
RECURSIVE getTokenLoopRetrySame(_, _, _, _, _, _)
getTokenLoopRetrySame(accts, cur, attempts, t, out, rs) ==
    IF attempts >= Len(accts)
    THEN Result(accts, cur, NoAccount, "no token available", rs)
    ELSE LET i == cur + 1
             next == (cur + 1) % Len(accts)
         IN  IF ~accts[i].Enable
             THEN getTokenLoopRetrySame(accts, next, attempts + 1, t, out, rs)
             ELSE IF IsExpired(accts[i], t)
             THEN IF out[i] = RefreshFailed
                  THEN getTokenLoopRetrySame(accts, cur, attempts + 1, t, out,
                                             Append(rs, <<i, out[i]>>))
                  ELSE Result([accts EXCEPT ![i] = RefreshToken(@, out[i], t)],
                              next, i, "", Append(rs, <<i, out[i]>>))
             ELSE Result(accts, next, i, "", rs)

\* The loop of GetToken from the given attempt on; out[i] is what a refresh of
\* entry i does.  idx is the 1-based position of the account returned.
RECURSIVE getTokenLoop(_, _, _, _, _, _)
getTokenLoop(accts, cur, attempts, t, out, rs) ==
    IF attempts >= Len(accts)
    THEN Result(accts, cur, NoAccount, "no token available", rs)
    ELSE LET i == cur + 1
             next == (cur + 1) % Len(accts)
         IN  IF ~accts[i].Enable
             THEN getTokenLoop(accts, next, attempts + 1, t, out, rs)
             ELSE IF IsExpired(accts[i], t)
             THEN IF out[i] = RefreshFailed
                  THEN getTokenLoop(accts, next, attempts + 1, t, out,
                                    Append(rs, <<i, out[i]>>))
                  ELSE Result([accts EXCEPT ![i] = RefreshToken(@, out[i], t)],
                              next, i, "", Append(rs, <<i, out[i]>>))
             ELSE Result(accts, next, i, "", rs)

\* A plausible slip: the cursor is not advanced past the account returned.
getTokenSticky(accts, cur, t, out) ==
    LET r == getTokenLoop(accts, cur, 0, t, out, <<>>)
    IN  IF r.idx = NoAccount THEN r ELSE [r EXCEPT !.currentIndex = r.idx - 1]

getToken(accts, cur, t, out) ==
    IF Len(accts) = 0 THEN Result(accts, cur, NoAccount, "no account", <<>>)
    ELSE getTokenLoop(accts, cur, 0, t, out, <<>>)

\* GetTokenByProjectID / GetTokenByEmail: the first enabled entry that
\* matches; a failed refresh of it ends the call with the error.
RECURSIVE getTokenBy(_, _, _, _, _, _, _)
getTokenBy(accts, cur, field, value, i, t, out) ==
    IF i > Len(accts)
    THEN Result(accts, cur, NoAccount, "account not found", <<>>)
    ELSE IF accts[i][field] = value /\ accts[i].Enable
         THEN IF IsExpired(accts[i], t)
              THEN IF out[i] = RefreshFailed
                   THEN Result(accts, cur, NoAccount, "refresh failed",
                               <<<<i, out[i]>>>>)
                   ELSE Result([accts EXCEPT ![i] = RefreshToken(@, out[i], t)],
                               cur, i, "", <<<<i, out[i]>>>>)
              ELSE Result(accts, cur, i, "", <<>>)
         ELSE getTokenBy(accts, cur, field, value, i + 1, t, out)

NoReturn == [op |-> "", idx |-> NoAccount, err |-> ""]

Returned(op, r) == [op |-> op, idx |-> r.idx, err |-> r.err]

\* s.GetToken()
GetToken ==
    /\ \E out \in [1..Len(accounts) -> RefreshOutcomes] :
          LET r == getToken(accounts, currentIndex, now, out)
          IN  /\ accounts' = r.accounts
              /\ currentIndex' = r.currentIndex
              /\ returned' = Returned("GetToken", r)
              /\ refreshes' = r.refreshes
    /\ UNCHANGED <<now, rotationVars, otherThanPool>>

\* s.GetTokenByProjectID(projectID)
GetTokenByProjectID ==
    /\ \E project \in {"p1", "p2"}, out \in [1..Len(accounts) -> RefreshOutcomes] :
          LET r == getTokenBy(accounts, currentIndex, "ProjectID", project,
                              1, now, out)
          IN  /\ accounts' = r.accounts
              /\ returned' = Returned("GetTokenByProjectID", r)
              /\ refreshes' = r.refreshes
    /\ UNCHANGED <<currentIndex, now, rotationVars, otherThanPool>>

\* s.GetTokenByEmail(email)
GetTokenByEmail ==
    /\ \E email \in {"A", "B", "Z"}, out \in [1..Len(accounts) -> RefreshOutcomes] :
          LET r == getTokenBy(accounts, currentIndex, "Email", email,
                              1, now, out)
          IN  /\ accounts' = r.accounts
              /\ returned' = Returned("GetTokenByEmail", r)
              /\ refreshes' = r.refreshes
    /\ UNCHANGED <<currentIndex, now, rotationVars, otherThanPool>>

setEnable(accts, index, enable) ==
    IF index < 0 \/ index >= Len(accts) THEN accts
    ELSE [accts EXCEPT ![index + 1].Enable = enable]

\* s.SetEnable(index, enable), the index being 0-based and possibly out of range
SetEnable ==
    /\ \E index \in 0..Len(accounts), enable \in BOOLEAN :
          accounts' = setEnable(accounts, index, enable)
    /\ returned' = NoReturn
    /\ refreshes' = <<>>
    /\ UNCHANGED <<currentIndex, now, rotationVars, otherThanPool>>

\* s.RefreshAccount(index)
RefreshAccount ==
    /\ \E index \in 0..(Len(accounts) - 1), o \in RefreshOutcomes :
          /\ accounts' = IF o = RefreshFailed THEN accounts
                         ELSE [accounts EXCEPT ![index + 1] = RefreshToken(@, o, now)]
          /\ refreshes' = <<<<index + 1, o>>>>
    /\ returned' = NoReturn
    /\ UNCHANGED <<currentIndex, now, rotationVars, otherThanPool>>

\* Time passes.
Tick ==
    /\ now < MaxNow * TickMs
    /\ now' = now + TickMs
    /\ returned' = NoReturn
    /\ refreshes' = <<>>
    /\ UNCHANGED <<accounts, currentIndex, rotationVars, otherThanPool>>

\* The pools accounts.json may hold at start: up to two accounts, each enabled
\* or not, never refreshed or refreshed at start with a long lifetime.
Stored(email, projects) ==
    {Account(email, p, e, x[1], x[2]) :
        p \in projects, e \in BOOLEAN, x \in {<<0, 0>>, <<TickMs, 900>>}}

InitialPools ==
    {<<>>}
    \cup {<<a>> : a \in Stored("A", {"p1"})}
    \cup {<<a, b>> : a \in Stored("A", {"p1"}), b \in Stored("B", {"p1", "p2"})}

\* The pool of the rotation scenario: A, B, C, enabled and not expired.
ThreeFresh ==
    <<Account("A", "p1", TRUE, TickMs, 900),
      Account("B", "p2", TRUE, TickMs, 900),
      Account("C", "p3", TRUE, TickMs, 900)>>

IdlePool ==
    /\ accounts = <<>>
    /\ currentIndex = 0
    /\ now = TickMs
    /\ returned = NoReturn
    /\ refreshes = <<>>

IdleRotation ==
    /\ log = <<>>
    /\ cut = -1

\* One GetToken call of the rotation scenario, its result logged.
Acquire ==
    /\ IF cut = -1 THEN Len(log) < MaxBefore ELSE Len(log) - cut < MaxAfter
    /\ \E out \in [1..Len(accounts) -> RefreshOutcomes] :
          LET r == getToken(accounts, currentIndex, now, out)
          IN  /\ accounts' = r.accounts
              /\ currentIndex' = r.currentIndex
              /\ returned' = Returned("GetToken", r)
              /\ refreshes' = r.refreshes
              /\ log' = Append(log, IF r.idx = NoAccount THEN "none"
                                    ELSE r.accounts[r.idx].Email)
    /\ UNCHANGED <<now, cut, otherThanPool>>

\* The SetEnable(index, false) call of the rotation scenario, made once after
\* any number of GetToken calls.
Disable ==
    /\ cut = -1
    /\ \E index \in 0..(Len(accounts) - 1) :
          accounts' = setEnable(accounts, index, FALSE)
    /\ cut' = Len(log)
    /\ returned' = NoReturn
    /\ refreshes' = <<>>
    /\ UNCHANGED <<currentIndex, now, log, otherThanPool>>

------------------------------------------------------------------------------
(***************************************************************************)
(* Upstream errors and the retry loop (vertex.Client)                      *)
(***************************************************************************)

\* Bound on the configured number of attempts.
MaxAttempts == 3

\* An error value: nil, an error that is not an *APIError, an *APIError, or
\* ctx.Err().
Err(kind, status, retryDelay, disableToken) ==
    [kind |-> kind, Status |-> status, RetryDelay |-> retryDelay,
     DisableToken |-> disableToken]

Nil == Err("nil", 0, 0, FALSE)

OtherError == Err("other", 0, 0, FALSE)

CtxErr == Err("ctx", 0, 0, FALSE)

\* The body of an upstream error response: parsed is whether it is JSON of the
\* expected shape; error.code is absent, a string or a number; retryDelay is
\* the text of the RetryInfo detail, "" when there is none.
Body(parsed, codeKind, codeStr, codeNum, retryDelay) ==
    [parsed |-> parsed, codeKind |-> codeKind, codeStr |-> codeStr,
     codeNum |-> codeNum, retryDelay |-> retryDelay]

Bodies ==
    {Body(FALSE, "absent", "", 0, "")}
    \cup {Body(TRUE, "absent", "", 0, d) : d \in {"", "0.5s"}}
    \cup {Body(TRUE, "string", c, 0, d) :
            c \in {"RESOURCE_EXHAUSTED", "INTERNAL", "UNAUTHENTICATED",
                   "unauthenticated", "PERMISSION_DENIED"},
            d \in {"", "0.5s", "7s"}}
    \cup {Body(TRUE, "number", "", n, d) :
            n \in {401, 429, 500, 403}, d \in {"", "0.5s", "7s", "500ms"}}

HttpStatuses == {400, 401, 403, 429, 500}

\* strings.ToUpper on the code strings above
ToUpper(c) == IF c = "unauthenticated" THEN "UNAUTHENTICATED" ELSE c

\* The regular expression (\d+(?:\.\d+)?)s and ParseFloat on the retryDelay
\* texts above, in ms; 0 when the expression does not match.
ParseRetryDelay(d) ==
    CASE d = "0.5s" -> 500
      [] d = "7s" -> 7000
      [] d = "500ms" -> 0
      [] d = "" -> 0

ExtractErrorDetails(statusCode, body) ==
    IF ~body.parsed THEN Err("api", statusCode, 0, FALSE)
    ELSE LET code == ToUpper(body.codeStr)
             status ==
                 IF body.codeKind = "string"
                 THEN (IF code = "RESOURCE_EXHAUSTED" THEN 429
                       ELSE IF code = "INTERNAL" THEN 500
                       ELSE IF code = "UNAUTHENTICATED" THEN 401
                       ELSE statusCode)
                 ELSE IF body.codeKind = "number" THEN body.codeNum
                 ELSE statusCode
             disable == body.codeKind = "string" /\ code = "UNAUTHENTICATED"
         IN  Err("api", status, ParseRetryDelay(body.retryDelay), disable)

\* What one invocation of the operation (SendRequest) may return.
OpOutcomes ==
    {Nil, OtherError}
    \cup {ExtractErrorDetails(st, b) : st \in HttpStatuses, b \in Bodies}

min(a, b) == IF a < b THEN a ELSE b

\* A plausible slip: the upstream delay is ignored.
retryDelayOfBackoffOnly(apiErr, n) ==
    min(1000 * (n + 1), 5000)

\* The delay before the next attempt, ms.
retryDelayOf(apiErr, n) ==
    IF apiErr.RetryDelay = 0 THEN min(1000 * (n + 1), 5000) ELSE apiErr.RetryDelay

IdleRetry ==
    /\ RetryMaxAttempts = 0
    /\ RetryStatusCodes = {}
    /\ rpc = "idle"
    /\ attempt = 0
    /\ lastErr = Nil
    /\ delay = 0
    /\ timerFired = FALSE
    /\ cancelled = FALSE
    /\ retryResult = Nil
    /\ calls = 0
    /\ waits = <<>>
    /\ outcomes = <<>>

Return(err) ==
    /\ rpc' = "done"
    /\ retryResult' = err

\* The loop condition fails: WithRetry returns lastErr.
Exhausted ==
    /\ rpc = "call"
    /\ attempt >= RetryMaxAttempts
    /\ Return(lastErr)
    /\ UNCHANGED <<RetryMaxAttempts, RetryStatusCodes, attempt, lastErr, delay,
                   timerFired, cancelled, calls, waits, outcomes, otherThanRetry>>

\* A plausible slip: the last attempt is taken to be the one before it.
returnsErrorOneEarly(err, n) ==
    \/ err.kind # "api"
    \/ err.Status = 401
    \/ err.Status \notin RetryStatusCodes
    \/ n >= RetryMaxAttempts - 2

\* A plausible slip: every APIError other than 401 is retried.
returnsErrorRetriesAnyStatus(err, n) ==
    \/ err.kind # "api"
    \/ err.Status = 401
    \/ n = RetryMaxAttempts - 1

\* Whether attempt n (from 0) that failed with err makes WithRetry return err.
returnsError(err, n) ==
    \/ err.kind # "api"
    \/ err.Status = 401
    \/ err.Status \notin RetryStatusCodes
    \/ n = RetryMaxAttempts - 1

\* One iteration of the loop up to its return or its select.
Attempt ==
    /\ rpc = "call"
    /\ attempt < RetryMaxAttempts
    /\ \E err \in OpOutcomes :
          /\ calls' = calls + 1
          /\ outcomes' = Append(outcomes, err)
          /\ IF err = Nil
             THEN Return(Nil) /\ UNCHANGED <<lastErr, delay>>
             ELSE /\ lastErr' = err
                  /\ IF returnsError(err, attempt)
                     THEN Return(err) /\ UNCHANGED delay
                     ELSE /\ delay' = retryDelayOf(err, attempt)
                          /\ rpc' = "wait"
                          /\ UNCHANGED retryResult
    /\ timerFired' = FALSE
    /\ UNCHANGED <<RetryMaxAttempts, RetryStatusCodes, attempt, cancelled, waits,
                   otherThanRetry>>

\* A plausible slip: the delay is slept out whatever happens to the context.
TimerFiresAfterCancel ==
    /\ rpc = "wait"
    /\ ~timerFired
    /\ timerFired' = TRUE
    /\ UNCHANGED <<RetryMaxAttempts, RetryStatusCodes, rpc, attempt, lastErr, delay,
                   cancelled, retryResult, calls, waits, outcomes, otherThanRetry>>

\* time.After(delay) fires while the select is parked on both channels: a
\* parked select is resumed by the first of its channels to become ready.
TimerFires ==
    /\ rpc = "wait"
    /\ ~timerFired
    /\ ~cancelled
    /\ timerFired' = TRUE
    /\ UNCHANGED <<RetryMaxAttempts, RetryStatusCodes, rpc, attempt, lastErr, delay,
                   cancelled, retryResult, calls, waits, outcomes, otherThanRetry>>

\* The select takes the timer: the loop goes on with the next attempt.
SelectTimer ==
    /\ rpc = "wait"
    /\ timerFired
    /\ waits' = Append(waits, delay)
    /\ attempt' = attempt + 1
    /\ rpc' = "call"
    /\ UNCHANGED <<RetryMaxAttempts, RetryStatusCodes, lastErr, delay, timerFired,
                   cancelled, retryResult, calls, outcomes, otherThanRetry>>

\* The select takes ctx.Done(): WithRetry returns ctx.Err().
SelectDone ==
    /\ rpc = "wait"
    /\ cancelled
    /\ ~timerFired
    /\ Return(CtxErr)
    /\ UNCHANGED <<RetryMaxAttempts, RetryStatusCodes, attempt, lastErr, delay,
                   timerFired, cancelled, calls, waits, outcomes, otherThanRetry>>

\* The request context is cancelled.
Cancel ==
    /\ rpc \in {"call", "wait"}
    /\ ~cancelled
    /\ cancelled' = TRUE
    /\ UNCHANGED <<RetryMaxAttempts, RetryStatusCodes, rpc, attempt, lastErr, delay,
                   timerFired, retryResult, calls, waits, outcomes, otherThanRetry>>

------------------------------------------------------------------------------
(***************************************************************************)
(* Bypass streaming (handlers.handleBypassStream)                          *)
(***************************************************************************)

\* Bound on the seconds the ticker runs.
MaxSeconds == 3

NoResponse == [err |-> FALSE, candidates |-> -1, reasoning |-> <<>>,
               toolCalls |-> <<>>, content |-> <<>>]

Response(err, candidates, reasoning, tcs, content) ==
    [err |-> err, candidates |-> candidates, reasoning |-> reasoning,
     toolCalls |-> tcs, content |-> content]

\* What GenerateContent may return: an error, a response without candidates,
\* a response whose candidate holds thought text "r", a function call and
\* text "c", each of them or not.
Responses ==
    {Response(TRUE, 0, <<>>, <<>>, <<>>), Response(FALSE, 0, <<>>, <<>>, <<>>)}
    \cup {Response(FALSE, 1, r, t, c) :
            r \in {<<>>, <<114>>},
            t \in {<<>>, <<[id |-> "T1", name |-> "f", args |-> "{}"]>>},
            c \in {<<>>, <<99>>}}

\* "Error: " + err.Error(), abridged to its first letter.
ErrorText == <<69>>

\* The context of the request is done: the client left, or the handler
\* returned or panicked (defer cancel()).
CtxDone == clientGone \/ bpc \in {"returned", "panicked"}

\* done has been closed.
DoneClosed == arrivedAt >= 0

\* A write of the handler: it reaches the client unless the client has left.
HandlerWrites(sw) ==
    IF clientGone THEN UNCHANGED writerVars ELSE SetWriter(sw)

IdleBypass ==
    /\ bpc = "idle"
    /\ hpc = "none"
    /\ tick = FALSE
    /\ clientGone = FALSE
    /\ seconds = 0
    /\ latency = 0
    /\ resp = NoResponse
    /\ arrivedAt = -1

\* NewSSEWriter, the first WriteHeartbeat and the start of the goroutine with
\* its ticker; the handler returns when the write fails.
FirstHeartbeat ==
    /\ bpc = "start"
    /\ IF clientGone
       THEN /\ bpc' = "returned"
            /\ UNCHANGED <<hpc, writerVars>>
       ELSE /\ SetWriter(writeHeartbeat(Writer))
            /\ bpc' = "upstream"
            /\ hpc' = "select"
    /\ UNCHANGED <<tick, clientGone, seconds, latency, resp, arrivedAt, otherThanBypass>>

\* One second passes and the ticker fires; a tick the goroutine has not taken
\* yet makes the new one be dropped.
TickerFires ==
    /\ hpc \in {"select", "write"}
    /\ seconds < MaxSeconds
    /\ seconds' = seconds + 1
    /\ tick' = TRUE
    /\ latency' = IF bpc = "upstream" THEN latency + 1 ELSE latency
    /\ UNCHANGED <<bpc, hpc, clientGone, resp, arrivedAt, writerVars,
                   otherThanBypass>>

\* The same when the goroutine keeps up with the ticker: it has taken the
\* previous tick and written its heartbeat before the next second is over.
TickerFiresInTime ==
    /\ hpc = "select"
    /\ ~tick
    /\ TickerFires

\* select: case <-ticker.C
SelectTick ==
    /\ hpc = "select"
    /\ tick
    /\ tick' = FALSE
    /\ hpc' = "write"
    /\ UNCHANGED <<bpc, clientGone, seconds, latency, resp, arrivedAt, writerVars,
                   otherThanBypass>>

\* select: case <-done, case <-ctx.Done()
SelectExit ==
    /\ hpc = "select"
    /\ DoneClosed \/ CtxDone
    /\ hpc' = "exit"
    /\ UNCHANGED <<bpc, tick, clientGone, seconds, latency, resp, arrivedAt, writerVars,
                   otherThanBypass>>

\* streamWriter.WriteHeartbeat() in the goroutine.  The write fails once the
\* client has left or the handler has panicked; a write to the ResponseWriter
\* after the handler has returned either reaches the connection or fails.
HeartbeatWrite ==
    /\ hpc = "write"
    /\ \/ /\ ~clientGone
          /\ bpc # "panicked"
          /\ SetWriter(writeHeartbeat(Writer))
          /\ hpc' = "select"
       \/ /\ clientGone \/ bpc \in {"panicked", "returned"}
          /\ hpc' = "exit"
          /\ UNCHANGED writerVars
    /\ UNCHANGED <<bpc, tick, clientGone, seconds, latency, resp, arrivedAt, otherThanBypass>>

\* vertex.GenerateContent returns and done is closed.
UpstreamReturns ==
    /\ bpc = "upstream"
    /\ \E r \in Responses :
          /\ resp' = r
          /\ bpc' = IF r.err THEN "errcontent" ELSE "convert"
    /\ arrivedAt' = Len(frames)
    /\ UNCHANGED <<hpc, tick, clientGone, seconds, latency, writerVars, otherThanBypass>>

\* streamWriter.WriteContent("Error: " + err.Error())
ErrorContent ==
    /\ bpc = "errcontent"
    /\ HandlerWrites(writeContentLocked(Writer, ErrorText))
    /\ bpc' = "errfinish"
    /\ UNCHANGED <<hpc, tick, clientGone, seconds, latency, resp, arrivedAt, otherThanBypass>>

\* streamWriter.WriteFinish("stop", nil) and the return
ErrorFinish ==
    /\ bpc = "errfinish"
    /\ HandlerWrites(writeFinish(Writer, "stop", "nil"))
    /\ bpc' = "returned"
    /\ UNCHANGED <<hpc, tick, clientGone, seconds, latency, resp, arrivedAt, otherThanBypass>>

\* openai.ConvertToOpenAIResponse: Candidates[0] panics without candidates.
Convert ==
    /\ bpc = "convert"
    /\ bpc' = IF resp.candidates = 0 THEN "panicked" ELSE "reasoning"
    /\ UNCHANGED <<hpc, tick, clientGone, seconds, latency, resp, arrivedAt, writerVars,
                   otherThanBypass>>

\* if msg.Reasoning != "" { streamWriter.WriteReasoning(msg.Reasoning) }
ReplyReasoning ==
    /\ bpc = "reasoning"
    /\ IF resp.reasoning # <<>>
       THEN HandlerWrites(writeReasoningLocked(Writer, resp.reasoning))
       ELSE UNCHANGED writerVars
    /\ bpc' = "tools"
    /\ UNCHANGED <<hpc, tick, clientGone, seconds, latency, resp, arrivedAt, otherThanBypass>>

\* if len(msg.ToolCalls) > 0 { ... streamWriter.WriteToolCalls(coreToolCalls) }
ReplyToolCalls ==
    /\ bpc = "tools"
    /\ IF Len(resp.toolCalls) > 0
       THEN HandlerWrites(writeToolCallsLocked(Writer, resp.toolCalls))
       ELSE UNCHANGED writerVars
    /\ bpc' = "content"
    /\ UNCHANGED <<hpc, tick, clientGone, seconds, latency, resp, arrivedAt, otherThanBypass>>

\* if msg.Content != "" { streamWriter.WriteContent(msg.Content) }
ReplyContent ==
    /\ bpc = "content"
    /\ IF resp.content # <<>>
       THEN HandlerWrites(writeContentLocked(Writer, resp.content))
       ELSE UNCHANGED writerVars
    /\ bpc' = "finish"
    /\ UNCHANGED <<hpc, tick, clientGone, seconds, latency, resp, arrivedAt, otherThanBypass>>

\* streamWriter.WriteFinish(finishReason, openAIResp.Usage) and the return
ReplyFinish ==
    /\ bpc = "finish"
    /\ HandlerWrites(writeFinish(Writer,
                                 IF Len(resp.toolCalls) > 0 THEN "tool_calls" ELSE "stop",
                                 "usage"))
    /\ bpc' = "returned"
    /\ UNCHANGED <<hpc, tick, clientGone, seconds, latency, resp, arrivedAt, otherThanBypass>>

\* The client disconnects.
ClientLeaves ==
    /\ bpc \notin {"idle", "returned", "panicked"}
    /\ ~clientGone
    /\ clientGone' = TRUE
    /\ UNCHANGED <<bpc, hpc, tick, seconds, latency, resp, arrivedAt, writerVars,
                   otherThanBypass>>

------------------------------------------------------------------------------
(***************************************************************************)
(* Claude request translation: messages to contents                        *)
(***************************************************************************)

MaxBlocks == 3
MaxMessages == 3

\* One content block of a Claude message. text holds "text" or "thinking",
\* id holds "id" or "tool_use_id"; a field the block lacks is "".
Block(type, text, signature, id, name) ==
    [type |-> type, text |-> text, signature |-> signature, id |-> id,
     name |-> name]

TextBlock(text) == Block("text", text, "", "", "")

ThinkingBlock(thinking, signature) == Block("thinking", thinking, signature, "", "")

ToolUse(id, name) == Block("tool_use", "", "", id, name)

ToolResult(id) == Block("tool_result", "", "", id, "")

Blocks ==
    {TextBlock("x"), TextBlock(""),
     ThinkingBlock("t", "S"), ThinkingBlock("u", "R"), ThinkingBlock("", "S"),
     ThinkingBlock("t", ""),
     ToolUse("T1", "f"), ToolResult("T1")}

\* msg.Content: a string or an array of blocks.
StringContent(s) == [isString |-> TRUE, str |-> s, blocks |-> <<>>]

ArrayContent(blocks) == [isString |-> FALSE, str |-> "", blocks |-> blocks]

ClaudeMessage(role, content) == [Role |-> role, Content |-> content]

Roles == {"user", "assistant"}

\* The contents of a single message.
Contents ==
    {StringContent(s) : s \in {"", "x"}}
    \cup {ArrayContent(b) : b \in UNION {[1..n -> Blocks] : n \in 0..MaxBlocks}}

\* The turns of a conversation with tool calls.
Turns ==
    {ClaudeMessage("assistant", ArrayContent(<<ToolUse("T1", "f")>>)),
     ClaudeMessage("assistant", ArrayContent(<<ToolUse("T1", "g")>>)),
     ClaudeMessage("assistant",
                   ArrayContent(<<ThinkingBlock("t", "S"), ToolUse("T2", "g")>>)),
     ClaudeMessage("assistant", ArrayContent(<<TextBlock("x")>>)),
     ClaudeMessage("assistant", StringContent("x")),
     ClaudeMessage("user", ArrayContent(<<ToolResult("T1")>>)),
     ClaudeMessage("user", ArrayContent(<<ToolResult("T2"), ToolResult("T1")>>)),
     ClaudeMessage("user", ArrayContent(<<ToolUse("T1", "g")>>)),
     ClaudeMessage("user", StringContent("x"))}

Requests ==
    {<<ClaudeMessage(role, c)>> : role \in Roles, c \in Contents}
    \cup UNION {[1..n -> Turns] : n \in 2..MaxMessages}

ToolIDs == {"", "T1", "T2"}

NoFunctionCall == <<>>
NoFunctionResponse == <<>>

\* A canonical Part; Args, Response and InlineData are left out.
Part(text, thought, fc, fr) ==
    [Text |-> text, Thought |-> thought, ThoughtSignature |-> "",
     FunctionCall |-> fc, FunctionResponse |-> fr]

FunctionCall(id, name) == <<[ID |-> id, Name |-> name]>>

FunctionResponse(id, name) == <<[ID |-> id, Name |-> name]>>

Content(role, parts) == [Role |-> role, Parts |-> parts]

\* The first loop of convertClaudeMessagesToContents: tool_use id to name,
\* a later tool_use overwriting an earlier one with the same id.
RECURSIVE scanBlocks(_, _, _)
scanBlocks(blocks, j, toolIDToName) ==
    IF j > Len(blocks) THEN toolIDToName
    ELSE LET block == blocks[j] IN
         scanBlocks(blocks, j + 1,
                    IF /\ block.type = "tool_use"
                       /\ block.id # ""
                       /\ block.name # ""
                    THEN [toolIDToName EXCEPT ![block.id] = block.name]
                    ELSE toolIDToName)

RECURSIVE scanMessages(_, _, _)
scanMessages(msgs, i, toolIDToName) ==
    IF i > Len(msgs) THEN toolIDToName
    ELSE scanMessages(msgs, i + 1,
                      IF msgs[i].Role = "assistant" /\ ~msgs[i].Content.isString
                      THEN scanBlocks(msgs[i].Content.blocks, 1, toolIDToName)
                      ELSE toolIDToName)

MinOf(S) == CHOOSE i \in S : \A j \in S : i <= j

MaxOf(S) == CHOOSE i \in S : \A j \in S : i >= j

\* The index applySignatureToParts writes to, 0 when it writes to none.
signatureTarget(parts) ==
    LET calls1 == {i \in 1..Len(parts) : parts[i].FunctionCall # NoFunctionCall}
        texts == {i \in 1..Len(parts) : parts[i].Text # "" /\ ~parts[i].Thought}
        thoughts == {i \in 1..Len(parts) : parts[i].Thought}
    IN  IF calls1 # {} THEN MinOf(calls1)
        ELSE IF texts # {} THEN MaxOf(texts)
        ELSE IF thoughts # {} THEN MaxOf(thoughts)
        ELSE 0

applySignatureToParts(parts, signature) ==
    [i \in 1..Len(parts) |->
        IF i = signatureTarget(parts)
        THEN [parts[i] EXCEPT !.ThoughtSignature = signature]
        ELSE parts[i]]

\* The parts one block appends.
blockParts(block, toolIDToName) ==
    CASE block.type = "text" ->
            IF block.text # "" THEN <<Part(block.text, FALSE, NoFunctionCall,
                                           NoFunctionResponse)>>
            ELSE <<>>
      [] block.type = "thinking" ->
            IF block.text # "" THEN <<Part(block.text, TRUE, NoFunctionCall,
                                           NoFunctionResponse)>>
            ELSE <<>>
      [] block.type = "tool_use" ->
            <<Part("", FALSE, FunctionCall(block.id, block.name),
                   NoFunctionResponse)>>
      [] block.type = "tool_result" ->
            <<Part("", FALSE, NoFunctionCall,
                   FunctionResponse(block.id, toolIDToName[block.id]))>>
      [] OTHER -> <<>>

\* The first phase of the array case: the parts and the first non-empty
\* signature of the thinking blocks.
RECURSIVE parseBlocks(_, _, _, _, _)
parseBlocks(blocks, j, toolIDToName, parts, thinkingSignature) ==
    IF j > Len(blocks)
    THEN [parts |-> parts, thinkingSignature |-> thinkingSignature]
    ELSE LET block == blocks[j] IN
         parseBlocks(blocks, j + 1, toolIDToName,
                     parts \o blockParts(block, toolIDToName),
                     IF /\ block.type = "thinking"
                        /\ block.signature # ""
                        /\ thinkingSignature = ""
                     THEN block.signature
                     ELSE thinkingSignature)

convertClaudeContentToParts(content, toolIDToName) ==
    IF content.isString
    THEN IF content.str # ""
         THEN <<Part(content.str, FALSE, NoFunctionCall, NoFunctionResponse)>>
         ELSE <<>>
    ELSE LET p == parseBlocks(content.blocks, 1, toolIDToName, <<>>, "") IN
         IF p.thinkingSignature # ""
         THEN applySignatureToParts(p.parts, p.thinkingSignature)
         ELSE p.parts

ensureAssistantHasThinking(parts) ==
    IF Len(parts) = 0 THEN parts
    ELSE IF parts[1].Thought THEN parts
    ELSE <<Part("[Thinking content from previous turn]", TRUE, NoFunctionCall,
                NoFunctionResponse)>> \o parts

mapClaudeRoleToAntigravity(role) == IF role = "assistant" THEN "model" ELSE "user"

\* The second loop of convertClaudeMessagesToContents.
RECURSIVE convertLoop(_, _, _, _, _)
convertLoop(msgs, i, enabled, toolIDToName, out) ==
    IF i > Len(msgs) THEN out
    ELSE LET msg == msgs[i]
             parts0 == convertClaudeContentToParts(msg.Content, toolIDToName)
             parts == IF enabled /\ msg.Role = "assistant" /\ Len(parts0) > 0
                      THEN ensureAssistantHasThinking(parts0)
                      ELSE parts0
         IN  convertLoop(msgs, i + 1, enabled, toolIDToName,
                         IF Len(parts) > 0
                         THEN Append(out, Content(mapClaudeRoleToAntigravity(msg.Role),
                                                  parts))
                         ELSE out)

convertClaudeMessagesToContents(msgs, enabled) ==
    convertLoop(msgs, 1, enabled,
                scanMessages(msgs, 1, [id \in ToolIDs |-> ""]), <<>>)

IdleConvert ==
    /\ messages = <<>>
    /\ thinkingEnabled = FALSE
    /\ contents = <<>>
    /\ vpc = "idle"

\* ConvertClaudeToAntigravity calling convertClaudeMessagesToContents.
ConvertMessages ==
    /\ vpc = "request"
    /\ contents' = convertClaudeMessagesToContents(messages, thinkingEnabled)
    /\ vpc' = "converted"
    /\ UNCHANGED <<messages, thinkingEnabled, otherThanConvert>>

------------------------------------------------------------------------------
(***************************************************************************)
(* The store's mutex: goroutines calling the store concurrently            *)
(***************************************************************************)

MaxProcs == 2

\* The goroutines that call the store.
Procs == 1..MaxProcs

NoProc == 0

\* The methods that take s.mu.Lock() and those that take s.mu.RLock().
WriterOps ==
    {"GetToken", "GetTokenByProjectID", "GetTokenByEmail", "RefreshAccount",
     "RefreshAll", "SetEnable", "Delete", "Add", "Clear"}

ReaderOps == {"Save", "GetAll", "Count", "EnabledCount"}

\* A goroutine outside the store, blocked on the mutex, inside a method, or
\* inside refreshToken for the entry at position i.
Outside == [pc |-> "idle", op |-> "", i |-> 0, attempts |-> 0]

Blocked == [pc |-> "lock", op |-> "", i |-> 0, attempts |-> 0]

Running(op, i, attempts) == [pc |-> "run", op |-> op, i |-> i, attempts |-> attempts]

Refreshing(op, i, attempts) ==
    [pc |-> "refreshing", op |-> op, i |-> i, attempts |-> attempts]

Reading(op) == [pc |-> "reading", op |-> op, i |-> 0, attempts |-> 0]

\* A plausible slip: a method that refreshes takes the lock as readers do.
canLockShared(w, rs) == TRUE

\* s.mu.Lock() proceeds when no goroutine holds the mutex in either mode.
canLock(w, rs) == w = NoProc /\ rs = {}

\* s.mu.RLock() proceeds when no goroutine holds s.mu.Lock().
canRLock(w) == w = NoProc

\* What auth.RefreshToken may do in these runs: fail, or store a token that
\* lasts longer than the margin.
LockRefreshOutcomes == {RefreshFailed, 900}

\* Delete: the entry is cut out and the cursor reset when it points past the end.
deleteAccount(accts, index) ==
    [j \in 1..(Len(accts) - 1) |-> IF j <= index THEN accts[j] ELSE accts[j + 1]]

\* A plausible slip: Delete leaves the cursor where it was.
deleteIndexKeepsCursor(accts, cur) == cur

deleteIndex(accts, cur) == IF cur >= Len(accts) THEN 0 ELSE cur

\* Add: the entry with the same e-mail is replaced, else the account appended.
addAccount(accts, account) ==
    IF \E j \in 1..Len(accts) : accts[j].Email = account.Email
    THEN LET j == CHOOSE k \in 1..Len(accts) :
                     /\ accts[k].Email = account.Email
                     /\ \A h \in 1..(k - 1) : accts[h].Email # account.Email
         IN  [accts EXCEPT ![j] = account]
    ELSE Append(accts, account)

\* The first enabled entry whose field has the value, 0 when there is none.
firstMatch(accts, field, value) ==
    LET S == {j \in 1..Len(accts) : accts[j][field] = value /\ accts[j].Enable}
    IN  IF S = {} THEN 0 ELSE CHOOSE j \in S : \A k \in S : j <= k

IdleLock ==
    /\ muWriter = NoProc
    /\ muReaders = {}
    /\ proc = [p \in {} |-> Outside]
    /\ inflight = {}

storeUntouched == <<returned, refreshes, rotationVars, otherThanLock>>

\* defer s.mu.Unlock() running as the method returns.
Unlock(p) ==
    /\ muWriter' = NoProc
    /\ proc' = [proc EXCEPT ![p] = Outside]

\* A goroutine calls a method of the store and reaches the mutex.
CallStore(p) ==
    /\ proc[p].pc = "idle"
    /\ proc' = [proc EXCEPT ![p] = Blocked]
    /\ UNCHANGED <<muWriter, muReaders, inflight, accounts, currentIndex, now,
                   storeUntouched>>

\* s.mu.Lock() returns in one of the methods that take it.
Lock(p) ==
    /\ proc[p].pc = "lock"
    /\ canLock(muWriter, muReaders)
    /\ muWriter' = p
    /\ \E op \in WriterOps : proc' = [proc EXCEPT ![p] = Running(op, 0, 0)]
    /\ UNCHANGED <<muReaders, inflight, accounts, currentIndex, now, storeUntouched>>

\* s.mu.RLock() returns in Save, GetAll, Count or EnabledCount.
RLock(p) ==
    /\ proc[p].pc = "lock"
    /\ canRLock(muWriter)
    /\ muReaders' = muReaders \cup {p}
    /\ \E op \in ReaderOps : proc' = [proc EXCEPT ![p] = Reading(op)]
    /\ UNCHANGED <<muWriter, inflight, accounts, currentIndex, now, storeUntouched>>

\* The reading method returns: defer s.mu.RUnlock().
RUnlock(p) ==
    /\ proc[p].pc = "reading"
    /\ muReaders' = muReaders \ {p}
    /\ proc' = [proc EXCEPT ![p] = Outside]
    /\ UNCHANGED <<muWriter, inflight, accounts, currentIndex, now, storeUntouched>>

\* One pass of GetToken's loop, up to its return or its refreshToken call.
GetTokenStep(p) ==
    /\ proc[p].pc = "run" /\ proc[p].op = "GetToken"
    /\ IF Len(accounts) = 0 \/ proc[p].attempts >= Len(accounts)
       THEN /\ Unlock(p)
            /\ UNCHANGED <<inflight, currentIndex>>
       ELSE LET i == currentIndex + 1 IN
            /\ currentIndex' = (currentIndex + 1) % Len(accounts)
            /\ IF ~accounts[i].Enable
               THEN /\ proc' = [proc EXCEPT ![p] = Running("GetToken", 0,
                                                           proc[p].attempts + 1)]
                    /\ UNCHANGED <<muWriter, inflight>>
               ELSE IF IsExpired(accounts[i], now)
               THEN /\ proc' = [proc EXCEPT ![p] = Refreshing("GetToken", i,
                                                              proc[p].attempts)]
                    /\ inflight' = inflight \cup {<<p, i>>}
                    /\ UNCHANGED muWriter
               ELSE /\ Unlock(p)
                    /\ UNCHANGED inflight
    /\ UNCHANGED <<muReaders, accounts, now, storeUntouched>>

\* GetTokenByProjectID / GetTokenByEmail up to the return or the refreshToken call.
GetTokenByStep(p) ==
    /\ proc[p].pc = "run"
    /\ proc[p].op \in {"GetTokenByProjectID", "GetTokenByEmail"}
    /\ \E value \in {"A", "B", "p1", "p2"} :
          LET field == IF proc[p].op = "GetTokenByEmail" THEN "Email" ELSE "ProjectID"
              i == firstMatch(accounts, field, value)
          IN  IF i # 0 /\ IsExpired(accounts[i], now)
              THEN /\ proc' = [proc EXCEPT ![p] = Refreshing(proc[p].op, i, 0)]
                   /\ inflight' = inflight \cup {<<p, i>>}
                   /\ UNCHANGED muWriter
              ELSE /\ Unlock(p)
                   /\ UNCHANGED inflight
    /\ UNCHANGED <<muReaders, accounts, currentIndex, now, storeUntouched>>

\* RefreshAccount(index) up to the return or the refreshToken call.
RefreshAccountStep(p) ==
    /\ proc[p].pc = "run" /\ proc[p].op = "RefreshAccount"
    /\ \E index \in 0..Len(accounts) :
          IF index >= Len(accounts)
          THEN /\ Unlock(p)
               /\ UNCHANGED inflight
          ELSE /\ proc' = [proc EXCEPT ![p] = Refreshing("RefreshAccount",
                                                         index + 1, 0)]
               /\ inflight' = inflight \cup {<<p, index + 1>>}
               /\ UNCHANGED muWriter
    /\ UNCHANGED <<muReaders, accounts, currentIndex, now, storeUntouched>>

\* RefreshAll: the next entry's refreshToken call, or the return after the last.
RefreshAllStep(p) ==
    /\ proc[p].pc = "run" /\ proc[p].op = "RefreshAll"
    /\ IF proc[p].i >= Len(accounts)
       THEN /\ Unlock(p)
            /\ UNCHANGED inflight
       ELSE /\ proc' = [proc EXCEPT ![p] = Refreshing("RefreshAll", proc[p].i + 1, 0)]
            /\ inflight' = inflight \cup {<<p, proc[p].i + 1>>}
            /\ UNCHANGED muWriter
    /\ UNCHANGED <<muReaders, accounts, currentIndex, now, storeUntouched>>

\* refreshToken returns to the method that called it.
RefreshReturns(p) ==
    /\ proc[p].pc = "refreshing"
    /\ inflight' = inflight \ {<<p, proc[p].i>>}
    /\ \E o \in LockRefreshOutcomes :
          /\ accounts' = IF o = RefreshFailed THEN accounts
                         ELSE [accounts EXCEPT ![proc[p].i] = RefreshToken(@, o, now)]
          /\ IF proc[p].op = "GetToken" /\ o = RefreshFailed
             THEN /\ proc' = [proc EXCEPT ![p] = Running("GetToken", 0,
                                                         proc[p].attempts + 1)]
                  /\ UNCHANGED muWriter
             ELSE IF proc[p].op = "RefreshAll"
             THEN /\ proc' = [proc EXCEPT ![p] = Running("RefreshAll", proc[p].i, 0)]
                  /\ UNCHANGED muWriter
             ELSE Unlock(p)
    /\ UNCHANGED <<muReaders, currentIndex, now, storeUntouched>>

\* SetEnable(index, enable), whole.
SetEnableStep(p) ==
    /\ proc[p].pc = "run" /\ proc[p].op = "SetEnable"
    /\ \E index \in 0..Len(accounts), enable \in BOOLEAN :
          accounts' = setEnable(accounts, index, enable)
    /\ Unlock(p)
    /\ UNCHANGED <<muReaders, inflight, currentIndex, now, storeUntouched>>

\* Delete(index), whole.
DeleteStep(p) ==
    /\ proc[p].pc = "run" /\ proc[p].op = "Delete"
    /\ \E index \in 0..Len(accounts) :
          IF index >= Len(accounts)
          THEN UNCHANGED <<accounts, currentIndex>>
          ELSE /\ accounts' = deleteAccount(accounts, index)
               /\ currentIndex' = deleteIndex(accounts', currentIndex)
    /\ Unlock(p)
    /\ UNCHANGED <<muReaders, inflight, now, storeUntouched>>

\* Add(account), whole: an account with the e-mail of A or of B.
AddStep(p) ==
    /\ proc[p].pc = "run" /\ proc[p].op = "Add"
    /\ \E email \in {"A", "B"} :
          accounts' = addAccount(accounts, Account(email, "p1", TRUE, 0, 0))
    /\ Unlock(p)
    /\ UNCHANGED <<muReaders, inflight, currentIndex, now, storeUntouched>>

\* Clear(), whole.
ClearStep(p) ==
    /\ proc[p].pc = "run" /\ proc[p].op = "Clear"
    /\ accounts' = <<>>
    /\ currentIndex' = 0
    /\ Unlock(p)
    /\ UNCHANGED <<muReaders, inflight, now, storeUntouched>>

------------------------------------------------------------------------------
(***************************************************************************)
(* OpenAI streaming handler (handlers.handleStream)                        *)
(***************************************************************************)

MaxChunks == 3

\* core.ToolCallInfo; Args and ThoughtSignature are left out.
ToolCallInfo(id, name) == [id |-> id, name |-> name]

NoFunction == <<>>

\* openai.StreamDataPart; Text is a sequence of bytes.
StreamDataPart(text, thought, fc) == [Text |-> text, Thought |-> thought, FunctionCall |-> fc]

TextPart == StreamDataPart(<<97>>, FALSE, NoFunction)

ThoughtPart == StreamDataPart(<<97>>, TRUE, NoFunction)

EmptyPart == StreamDataPart(<<>>, FALSE, NoFunction)

CallPart(id, name) == StreamDataPart(<<>>, FALSE, <<ToolCallInfo(id, name)>>)

\* One upstream chunk: the parts of its first candidate and its finishReason.
StreamData(parts, finishReason) == [Parts |-> parts, FinishReason |-> finishReason]

ChunkParts ==
    {<<>>, <<TextPart>>, <<ThoughtPart>>, <<EmptyPart>>, <<ThoughtPart, TextPart>>,
     <<CallPart("c1", "f")>>, <<CallPart("", "f"), CallPart("c2", "g")>>,
     <<TextPart, CallPart("c1", "f")>>}

StreamChunks == {StreamData(ps, fr) : ps \in ChunkParts, fr \in {"", "STOP"}}

\* utils.GenerateToolCallID() for a call that came without an id.
GeneratedToolCallID == "call_gen"

\* sw.ProcessPart(part)
writerProcessPart(sw, part) ==
    IF part.Thought THEN writeReasoningLocked(sw, part.Text)
    ELSE IF part.Text # <<>> THEN writeContentLocked(sw, part.Text)
    ELSE IF part.FunctionCall # NoFunction
    THEN LET fc == part.FunctionCall[1]
             id == IF fc.id = "" THEN GeneratedToolCallID ELSE fc.id
         IN  [sw EXCEPT !.toolCalls = Append(@, ToolCallInfo(id, fc.name))]
    ELSE sw

\* A plausible slip: the calls are written and the accumulator is kept.
flushToolCallsKeepsThem(sw) ==
    IF Len(sw.toolCalls) > 0 THEN writeToolCallsLocked(sw, sw.toolCalls) ELSE sw

\* sw.FlushToolCalls()
flushToolCalls(sw) ==
    IF Len(sw.toolCalls) > 0
    THEN [writeToolCallsLocked(sw, sw.toolCalls) EXCEPT !.toolCalls = <<>>]
    ELSE sw

RECURSIVE processParts(_, _, _)
processParts(sw, parts, j) ==
    IF j > Len(parts) THEN sw
    ELSE processParts(writerProcessPart(sw, parts[j]), parts, j + 1)

\* The callback handleStream gives to ParseStreamWithResult.
streamCallback(sw, data) ==
    LET sw1 == processParts(sw, data.Parts, 1)
    IN  IF data.FinishReason # "" THEN flushToolCalls(sw1) ELSE sw1

\* streamResult.FinishReason: the last non-empty finishReason seen.
RECURSIVE lastFinishReason(_, _)
lastFinishReason(chunks, j) ==
    IF j = 0 THEN ""
    ELSE IF chunks[j].FinishReason # "" THEN chunks[j].FinishReason
    ELSE lastFinishReason(chunks, j - 1)

IdleStream ==
    /\ spc = "idle"
    /\ upstream = <<>>

\* GenerateContentStream fails: WriteSSEError, no writer.
StreamRefused ==
    /\ spc = "start"
    /\ SetWriter(WriteSSEDone(WriteSSEData(Writer, Frame("error", <<>>, "error"))))
    /\ spc' = "refused"
    /\ UNCHANGED <<upstream, otherThanStream>>

\* GenerateContentStream succeeds: SetSSEHeaders, NewSSEWriter.
StreamOpens ==
    /\ spc = "start"
    /\ SetWriter(NewSSEWriter)
    /\ spc' = "streaming"
    /\ UNCHANGED <<upstream, otherThanStream>>

\* ParseStreamWithResult hands one upstream chunk to the callback.
StreamChunk ==
    /\ spc = "streaming"
    /\ Len(upstream) < MaxChunks
    /\ \E data \in StreamChunks :
          /\ SetWriter(streamCallback(Writer, data))
          /\ upstream' = Append(upstream, data)
    /\ UNCHANGED <<spc, otherThanStream>>

\* The upstream stream ends or aborts: WriteFinish.
StreamEnds ==
    /\ spc = "streaming"
    /\ \E usage \in {"nil", "usage"} :
          LET reason == lastFinishReason(upstream, Len(upstream))
          IN  SetWriter(writeFinish(Writer, IF reason = "" THEN "stop" ELSE reason,
                                    usage))
    /\ spc' = "finished"
    /\ UNCHANGED <<upstream, otherThanStream>>

------------------------------------------------------------------------------
(***************************************************************************)
(* Model names and GenerationConfig                                        *)
(***************************************************************************)

\* Bound on the max_tokens and budget values tried, in units of 512 tokens.
MaxHalfKilo == 6

\* A model ID is the sequence of its parts between the hyphens, so that
\* prefix, suffix and containment are computed rather than looked up.
SupportedModels ==
    {<<"gemini", "3", "pro", "high">>, <<"gemini", "3", "pro", "low">>,
     <<"gemini", "3", "pro", "high", "bypass">>,
     <<"gemini", "3", "pro", "low", "bypass">>,
     <<"claude", "opus", "4", "5", "thinking">>,
     <<"claude", "sonnet", "4", "5">>,
     <<"claude", "sonnet", "4", "5", "thinking">>}

\* The IDs a client may send: the supported ones and some others.
ModelNames ==
    SupportedModels
    \cup {<<"gemini", "2", "flash">>, <<"gemini", "2", "flash", "thinking">>,
          <<"claude", "sonnet", "4", "5", "bypass">>,
          <<"gemini", "3", "pro", "mid", "bypass">>}

ModelAliasMap ==
    {<< <<"gemini", "3", "pro", "high", "bypass">>, <<"gemini", "3", "pro", "high">> >>,
     << <<"gemini", "3", "pro", "low", "bypass">>, <<"gemini", "3", "pro", "low">> >>}

IsAlias(modelName) == \E e \in ModelAliasMap : e[1] = modelName

ResolveModelName(modelName) ==
    IF IsAlias(modelName)
    THEN (CHOOSE e \in ModelAliasMap : e[1] = modelName)[2]
    ELSE modelName

\* strings.HasSuffix(modelName, "-" + word)
HasSuffix(modelName, word) ==
    Len(modelName) > 1 /\ modelName[Len(modelName)] = word

\* strings.HasPrefix(modelName, "gemini-3-pro-")
HasGemini3ProPrefix(modelName) ==
    Len(modelName) > 3 /\ SubSeq(modelName, 1, 3) = <<"gemini", "3", "pro">>

IsBypassModel(modelName) == HasSuffix(modelName, "bypass")

IsClaudeModel(modelName) == \E i \in 1..Len(modelName) : modelName[i] = "claude"

\* ShouldEnableThinking(modelName, nil)
ShouldEnableThinking(modelName) ==
    IF IsAlias(modelName) THEN FALSE
    ELSE IF HasSuffix(modelName, "thinking") THEN TRUE
    ELSE IF HasGemini3ProPrefix(modelName) THEN TRUE
    ELSE FALSE

NoThinkingConfig == <<>>

ThinkingConfig(include, budget, level) ==
    <<[IncludeThoughts |-> include, ThinkingBudget |-> budget,
       ThinkingLevel |-> level]>>

BuildThinkingConfig(modelName) ==
    LET actualModel == ResolveModelName(modelName)
    IN  IF HasGemini3ProPrefix(actualModel) THEN ThinkingConfig(TRUE, 0, "")
        ELSE IF IsClaudeModel(actualModel) THEN ThinkingConfig(TRUE, 32000, "")
        ELSE ThinkingConfig(TRUE, 1024, "")

GetClaudeMaxOutputTokens == 64000

\* The least difference buildClaudeGenerationConfig keeps between
\* MaxOutputTokens and ThinkingBudget.
minDiff == 1024

GenerationConfig(maxOutputTokens, thinkingConfig) ==
    [MaxOutputTokens |-> maxOutputTokens, ThinkingConfig |-> thinkingConfig]

NoThinking == <<>>

\* req.Thinking of a Claude request.
ClaudeThinking(type, budget, level) ==
    <<[Type |-> type, Budget |-> budget, Level |-> level]>>

\* The last step of buildClaudeGenerationConfig: MaxOutputTokens against
\* ThinkingBudget.
fitBudget(maxOutputTokens, tc) ==
    IF tc.ThinkingBudget > 0 /\ maxOutputTokens <= tc.ThinkingBudget + minDiff
    THEN LET budget == maxOutputTokens - minDiff
         IN  IF budget < 1024
             THEN GenerationConfig(2048, <<[tc EXCEPT !.ThinkingBudget = 1024]>>)
             ELSE GenerationConfig(maxOutputTokens,
                                   <<[tc EXCEPT !.ThinkingBudget = budget]>>)
    ELSE GenerationConfig(maxOutputTokens, <<tc>>)

buildClaudeGenerationConfig(req, modelName) ==
    IF ShouldEnableThinking(modelName)
    THEN LET tc0 == BuildThinkingConfig(modelName)[1]
             enabled == req.Thinking # NoThinking /\ req.Thinking[1].Type = "enabled"
             tc1 == IF enabled /\ req.Thinking[1].Budget > 0
                    THEN [tc0 EXCEPT !.ThinkingBudget = req.Thinking[1].Budget]
                    ELSE tc0
             tc2 == IF enabled /\ req.Thinking[1].Level # ""
                    THEN [tc1 EXCEPT !.ThinkingLevel = req.Thinking[1].Level]
                    ELSE tc1
             tc3 == IF HasGemini3ProPrefix(modelName)
                    THEN [tc2 EXCEPT !.ThinkingLevel = "high", !.ThinkingBudget = 0]
                    ELSE tc2
         IN  fitBudget(req.MaxTokens, tc3)
    ELSE GenerationConfig(req.MaxTokens, NoThinkingConfig)

\* What goes upstream: the model name and the GenerationConfig.
Upstream(modelName, cfg) == [Model |-> modelName, GenerationConfig |-> cfg]

NoUpstream == Upstream(<<>>, GenerationConfig(0, NoThinkingConfig))

\* ConvertClaudeToAntigravity, as far as the model name and the
\* GenerationConfig go.
ConvertClaudeToAntigravity(req) ==
    LET modelName == ResolveModelName(req.Model)
        cfg == buildClaudeGenerationConfig(req, modelName)
    IN  IF req.Prefill /\ cfg.ThinkingConfig # NoThinkingConfig
        THEN Upstream(modelName,
                      [cfg EXCEPT !.ThinkingConfig = ThinkingConfig(FALSE, 0, "")])
        ELSE Upstream(modelName, cfg)

\* openai.buildGenerationConfig
buildGenerationConfig(req, modelName) ==
    IF IsClaudeModel(modelName)
    THEN GenerationConfig(GetClaudeMaxOutputTokens,
                          IF ~req.Tools /\ ShouldEnableThinking(modelName)
                          THEN BuildThinkingConfig(modelName)
                          ELSE NoThinkingConfig)
    ELSE GenerationConfig(IF req.MaxTokens > 0 THEN req.MaxTokens ELSE 0,
                          IF ShouldEnableThinking(modelName)
                          THEN BuildThinkingConfig(modelName)
                          ELSE NoThinkingConfig)

\* ConvertOpenAIToAntigravity, as far as the model name and the
\* GenerationConfig go.
ConvertOpenAIToAntigravity(req) ==
    LET modelName == ResolveModelName(req.Model)
    IN  Upstream(modelName, buildGenerationConfig(req, modelName))

\* max_tokens and budget values: the multiples of 512 within the bound, their
\* neighbours, and the values about the default Claude budget.
TokenValues ==
    {k * 512 + d : k \in 0..MaxHalfKilo, d \in {-1, 0, 1}}
    \cup {32000, 33023, 33024, 33025, 64000}

Request(dialect, model, maxTokens, thinking, tools, prefill) ==
    [Dialect |-> dialect, Model |-> model, MaxTokens |-> maxTokens,
     Thinking |-> thinking, Tools |-> tools, Prefill |-> prefill]

ClaudeRequests ==
    {Request("claude", m, n, t, FALSE, p) :
        m \in ModelNames, n \in TokenValues, p \in BOOLEAN,
        t \in {NoThinking, ClaudeThinking("disabled", 0, "")}
              \cup {ClaudeThinking("enabled", b, l) :
                       b \in {v \in TokenValues : v >= 0}, l \in {"", "low"}}}

OpenAIRequests ==
    {Request("openai", m, n, NoThinking, t, FALSE) :
        m \in ModelNames, n \in {0, 4096}, t \in BOOLEAN}

IdleConfig ==
    /\ genRequest = Request("", <<>>, 0, NoThinking, FALSE, FALSE)
    /\ genResult = NoUpstream
    /\ gpc = "idle"

\* A Claude request is converted, or rejected for its max_tokens.
ConvertClaude ==
    /\ gpc = "request"
    /\ genRequest.Dialect = "claude"
    /\ IF genRequest.MaxTokens <= 0
       THEN gpc' = "rejected" /\ UNCHANGED genResult
       ELSE /\ genResult' = ConvertClaudeToAntigravity(genRequest)
            /\ gpc' = "built"
    /\ UNCHANGED <<genRequest, otherThanConfig>>

\* An OpenAI request is converted; the bypass handler resolves the model
\* name before it calls the converter.
ConvertOpenAI ==
    /\ gpc = "request"
    /\ genRequest.Dialect = "openai"
    /\ genResult' = ConvertOpenAIToAntigravity(
                        IF IsBypassModel(genRequest.Model)
                        THEN [genRequest EXCEPT !.Model = ResolveModelName(@)]
                        ELSE genRequest)
    /\ gpc' = "built"
    /\ UNCHANGED <<genRequest, otherThanConfig>>

------------------------------------------------------------------------------
(***************************************************************************)
(* API key middleware (handlers.RequireAPIKey)                             *)
(***************************************************************************)

\* The key values tried: none, the configured one, another one.
KeyValues == {"", "sk-key", "sk-other"}

\* The Authorization header is its scheme prefix and the rest; both empty
\* when the header is absent.
Authorization(scheme, rest) == [Scheme |-> scheme, Rest |-> rest]

AuthorizationValues ==
    {Authorization(s, k) : s \in {"", "Bearer "}, k \in KeyValues}

HeaderIsEmpty(authHeader) == authHeader.Scheme = "" /\ authHeader.Rest = ""

\* strings.TrimPrefix(authHeader, "Bearer ")
TrimBearer(authHeader) == authHeader.Rest

AuthRequest(authorization, xApiKey, xGoogApiKey, queryKey) ==
    [Authorization |-> authorization, XApiKey |-> xApiKey,
     XGoogApiKey |-> xGoogApiKey, QueryKey |-> queryKey]

AuthRequests ==
    {AuthRequest(a, x, g, q) :
        a \in AuthorizationValues, x \in KeyValues, g \in KeyValues,
        q \in KeyValues}

\* The key RequireAPIKey compares with cfg.APIKey.
providedKey(r) ==
    LET k1 == IF ~HeaderIsEmpty(r.Authorization)
              THEN TrimBearer(r.Authorization) ELSE ""
        k2 == IF k1 = "" THEN r.XApiKey ELSE k1
        k3 == IF k2 = "" THEN r.XGoogApiKey ELSE k2
    IN  IF k3 = "" THEN r.QueryKey ELSE k3

IdleAuth ==
    /\ apiKey = ""
    /\ authRequest = AuthRequest(Authorization("", ""), "", "", "")
    /\ authOutcome = "idle"

RequireAPIKey ==
    /\ authOutcome = ""
    /\ authOutcome' = IF apiKey = "" THEN "next"
                      ELSE IF providedKey(authRequest) # apiKey THEN "401"
                      ELSE "next"
    /\ UNCHANGED <<apiKey, authRequest, otherThanAuth>>

------------------------------------------------------------------------------
(***************************************************************************)
(* Route handlers: decoding, credential acquisition, dispatch              *)
(***************************************************************************)

Routes == {"/v1/chat/completions", "/{credential}/v1/chat/completions",
           "/v1/messages"}

\* The request body: unreadable, not JSON for the dialect, or a request.
RequestBodies == {"unreadable", "invalid", "valid"}

\* The credential of the path: an e-mail address or a project ID.
Credentials == {"user@example.com", "project-1"}

\* strings.Contains(credential, "@")
ContainsAt(credential) == credential = "user@example.com"

RouteRequest(route, body, stream, model, credential) ==
    [Route |-> route, Body |-> body, Stream |-> stream, Model |-> model,
     Credential |-> credential]

RouteRequests ==
    {RouteRequest(r, b, s, m, "") :
        r \in {"/v1/chat/completions", "/v1/messages"}, b \in RequestBodies,
        s \in BOOLEAN, m \in ModelNames}
    \cup {RouteRequest("/{credential}/v1/chat/completions", b, s, m, c) :
            b \in RequestBodies, s \in BOOLEAN, m \in ModelNames,
            c \in Credentials}

NoAcquisition == [Call |-> "", Err |-> FALSE]

Acquisition(call, err) == [Call |-> call, Err |-> err]

\* handleStreamRequest hands a bypass model to handleBypassStream.
openaiHandler(req) ==
    IF req.Stream
    THEN IF IsBypassModel(req.Model) THEN "handleBypassStream"
         ELSE "handleStreamRequest"
    ELSE "handleNonStreamRequest"

claudeHandler(req) ==
    IF req.Stream THEN "handleClaudeStreamRequest"
    ELSE "handleClaudeNonStreamRequest"

IdleRoute ==
    /\ routeRequest = RouteRequest("", "", FALSE, <<>>, "")
    /\ acquisition = NoAcquisition
    /\ httpStatus = 0
    /\ handler = ""
    /\ qpc = "idle"

\* The handler answers with a status of its own and calls nothing further.
answers(status, acq) ==
    /\ httpStatus' = status
    /\ acquisition' = acq
    /\ handler' = ""
    /\ qpc' = "done"
    /\ UNCHANGED <<routeRequest, otherThanRoute>>

\* The handler passes the request and the token on.
dispatches(name, acq) ==
    /\ httpStatus' = 0
    /\ acquisition' = acq
    /\ handler' = name
    /\ qpc' = "done"
    /\ UNCHANGED <<routeRequest, otherThanRoute>>

HandleChatCompletions ==
    /\ qpc = "request"
    /\ routeRequest.Route = "/v1/chat/completions"
    /\ IF routeRequest.Body # "valid"
       THEN answers(400, NoAcquisition)
       ELSE \E err \in BOOLEAN :
               IF err THEN answers(503, Acquisition("GetToken", TRUE))
               ELSE dispatches(openaiHandler(routeRequest),
                               Acquisition("GetToken", FALSE))

HandleChatCompletionsWithCredential ==
    /\ qpc = "request"
    /\ routeRequest.Route = "/{credential}/v1/chat/completions"
    /\ IF routeRequest.Body # "valid"
       THEN answers(400, NoAcquisition)
       ELSE LET call == IF ContainsAt(routeRequest.Credential)
                        THEN "GetTokenByEmail" ELSE "GetTokenByProjectID"
            IN  \E err \in BOOLEAN :
                   IF err THEN answers(404, Acquisition(call, TRUE))
                   ELSE dispatches(openaiHandler(routeRequest),
                                   Acquisition(call, FALSE))

HandleClaudeMessages ==
    /\ qpc = "request"
    /\ routeRequest.Route = "/v1/messages"
    /\ IF routeRequest.Body # "valid"
       THEN answers(400, NoAcquisition)
       ELSE \E err \in BOOLEAN :
               IF err THEN answers(503, Acquisition("GetToken", TRUE))
               ELSE dispatches(claudeHandler(routeRequest),
                               Acquisition("GetToken", FALSE))

------------------------------------------------------------------------------
(***************************************************************************)
(* Streaming handlers when the parser or its receiver fails                *)
(***************************************************************************)

\* Bound on the chunks (OpenAI) or parts (Claude) received before the end.
MaxReceived == 2

\* A write to a ResponseWriter that has failed writes nothing: the state is
\* that of the call, the frames are those before it.
WithFramesOf(sw, before) == [sw EXCEPT !.frames = before.frames]

WithEventsOf(e, before) == [e EXCEPT !.events = before.events]

IdleAbort ==
    /\ served = ""
    /\ apc = "idle"
    /\ cause = ""
    /\ writeFailed = FALSE
    /\ received = 0
    /\ resultFinishReason = ""
    /\ finishCalls = 0

\* GenerateContentStream succeeded: SetSSEHeaders, then NewSSEWriter, or
\* NewSSEEmitter and emitter.Start().
ResponseStarts ==
    /\ apc = "start"
    /\ apc' = "streaming"
    /\ IF served = "openai"
       THEN SetWriter(NewSSEWriter) /\ UNCHANGED claudeVars
       ELSE /\ SetEmitter(writeSSE(Emitter,
                  [Ev("message_start", NilIndex, "", "")
                      EXCEPT !.inTokens = inputTokens]))
            /\ UNCHANGED <<writerVars, fed, history, cpc>>
    /\ UNCHANGED <<served, cause, writeFailed, received, resultFinishReason,
                   finishCalls, otherThanAbort>>

\* The parser hands a chunk to the receiver, which returns nil.
ReceiverReturns ==
    /\ apc = "streaming"
    /\ received < MaxReceived
    /\ received' = received + 1
    /\ IF served = "openai"
       THEN \E data \in StreamChunks :
               /\ SetWriter(streamCallback(Writer, data))
               /\ resultFinishReason' = IF data.FinishReason # ""
                                        THEN data.FinishReason
                                        ELSE resultFinishReason
               /\ UNCHANGED claudeVars
       ELSE \E part \in Parts :
               /\ SetEmitter(processPart(Emitter, part))
               /\ UNCHANGED <<resultFinishReason, writerVars, fed, history, cpc>>
    /\ UNCHANGED <<served, apc, cause, writeFailed, finishCalls,
                   otherThanAbort>>

\* The upstream body ends: io.EOF or data: [DONE].
ParserEnds ==
    /\ apc = "streaming"
    /\ apc' = "ended"
    /\ cause' = "eof"
    /\ UNCHANGED <<served, writeFailed, received, resultFinishReason,
                   finishCalls, claudeVars, writerVars, otherThanAbort>>

\* bufReader.ReadString fails: the parser returns the error.
ParserFails ==
    /\ apc = "streaming"
    /\ apc' = "ended"
    /\ cause' = "read error"
    /\ UNCHANGED <<served, writeFailed, received, resultFinishReason,
                   finishCalls, claudeVars, writerVars, otherThanAbort>>

\* ProcessPart returns the error of a write to the client: the parser
\* returns it. Only a part that makes ProcessPart write can fail so.
ReceiverFails ==
    /\ apc = "streaming"
    /\ received < MaxReceived
    /\ received' = received + 1
    /\ apc' = "ended"
    /\ cause' = "receiver error"
    /\ writeFailed' = TRUE
    /\ IF served = "openai"
       THEN \E part \in {TextPart, ThoughtPart}, reason \in {"", "STOP"} :
               /\ writerProcessPart(Writer, part).frames # frames
               /\ SetWriter(WithFramesOf(writerProcessPart(Writer, part), Writer))
               /\ resultFinishReason' = IF reason # "" THEN reason
                                        ELSE resultFinishReason
               /\ UNCHANGED claudeVars
       ELSE \E part \in Parts :
               /\ processPart(Emitter, part).events # events
               /\ SetEmitter(WithEventsOf(processPart(Emitter, part), Emitter))
               /\ UNCHANGED <<resultFinishReason, writerVars, fed, history, cpc>>
    /\ UNCHANGED <<served, finishCalls, otherThanAbort>>

\* After the parser returned, with or without an error: WriteFinish, or
\* emitter.Finish.
HandlerFinishes ==
    /\ apc = "ended"
    /\ apc' = "finished"
    /\ finishCalls' = finishCalls + 1
    /\ IF served = "openai"
       THEN \E usage \in {"nil", "usage"} :
               LET reason == IF resultFinishReason # "" THEN resultFinishReason
                             ELSE "stop"
                   sw == writeFinish(Writer, reason, usage)
               IN  /\ SetWriter(IF writeFailed THEN WithFramesOf(sw, Writer) ELSE sw)
                   /\ UNCHANGED claudeVars
       ELSE \E usage \in Usages :
               LET e == finish(Emitter, usage)
               IN  /\ SetEmitter(IF writeFailed THEN WithEventsOf(e, Emitter) ELSE e)
                   /\ UNCHANGED <<writerVars, fed, history, cpc>>
    /\ UNCHANGED <<served, cause, writeFailed, received, resultFinishReason,
                   otherThanAbort>>

------------------------------------------------------------------------------
(***************************************************************************)
(* The *store.Account a request holds while the store is modified          *)
(***************************************************************************)

\* The zero value of store.Account, as in the spare slots of a backing array.
ZeroAccount == Account("", "", FALSE, 0, 0)

\* An account as the admin API adds it: fresh tokens.
AddedAccount(email) == [Account(email, "p2", TRUE, TickMs, 900) EXCEPT !.AccessToken = "t2"]

\* The first n slots of the array: the slice of length n over it.
sliceOf(arr, n) == SubSeq(arr, 1, n)

\* append(s.accounts[:index], s.accounts[index+1:]...) on the backing array:
\* the slots after index move down by one in place, the last slot of the
\* old slice keeps its bytes.
deleteInPlace(arr, n, index) ==
    [j \in 1..Len(arr) |-> IF j >= index + 1 /\ j <= n - 1 THEN arr[j + 1] ELSE arr[j]]

\* The 1-based slot Add overwrites, 0 when it appends.
existingSlot(accts, account) ==
    IF \E j \in 1..Len(accts) : accts[j].Email = account.Email
    THEN CHOOSE k \in 1..Len(accts) :
             /\ accts[k].Email = account.Email
             /\ \A h \in 1..(k - 1) : accts[h].Email # account.Email
    ELSE 0

\* The capacity append gives a slice that has outgrown a backing array of
\* capacity c.
grownCap(c) == IF c = 0 THEN 1 ELSE 2 * c

\* The array append allocates for the elements accts and one more.
grownArray(accts, account, c) ==
    [j \in 1..grownCap(c) |-> IF j <= Len(accts) THEN accts[j]
                              ELSE IF j = Len(accts) + 1 THEN account
                              ELSE ZeroAccount]

\* What the request reads through its *Account.
Deref == IF tokenShared THEN backing[token] ELSE detachedAccount

IdlePointer ==
    /\ backing = <<>>
    /\ token = 0
    /\ tokenShared = FALSE
    /\ detachedAccount = ZeroAccount
    /\ handedOut = ZeroAccount

pointerKeeps == <<now, returned, refreshes, otherThanPointer>>

\* The store moves s.accounts to another array: the request's pointer keeps
\* the old array alive, and nothing writes to that array any more.
Detach ==
    /\ tokenShared' = FALSE
    /\ detachedAccount' = IF token # 0 THEN Deref ELSE detachedAccount

\* GetToken returns &s.accounts[i] to a handler.
TokenHandedOut ==
    /\ token = 0
    /\ Len(accounts) > 0
    /\ LET r == getToken(accounts, currentIndex, now, [j \in 1..Len(accounts) |-> 900])
       IN  /\ r.idx # NoAccount
           /\ accounts' = r.accounts
           /\ currentIndex' = r.currentIndex
           /\ backing' = [j \in 1..Len(backing) |->
                             IF j <= Len(accounts) THEN r.accounts[j] ELSE backing[j]]
           /\ token' = r.idx
           /\ tokenShared' = TRUE
           /\ handedOut' = r.accounts[r.idx]
    /\ UNCHANGED <<detachedAccount, pointerKeeps>>

\* The handler returns: the request drops its pointer.
RequestEnds ==
    /\ token # 0
    /\ token' = 0
    /\ tokenShared' = FALSE
    /\ UNCHANGED <<accounts, currentIndex, backing, detachedAccount, handedOut,
                   pointerKeeps>>

\* Delete(index) from the admin API, whole.
DeleteEntry ==
    /\ \E index \in 0..(Len(accounts) - 1) :
          /\ accounts' = deleteAccount(accounts, index)
          /\ backing' = deleteInPlace(backing, Len(accounts), index)
          /\ currentIndex' = deleteIndex(accounts', currentIndex)
    /\ UNCHANGED <<token, tokenShared, detachedAccount, handedOut, pointerKeeps>>

\* Add(account) from the admin API, whole.
AddEntry ==
    /\ \E email \in {"A", "C"} :
          LET account == AddedAccount(email)
              j == existingSlot(accounts, account)
          IN  IF j # 0
              THEN /\ accounts' = [accounts EXCEPT ![j] = account]
                   /\ backing' = [backing EXCEPT ![j] = account]
                   /\ UNCHANGED <<tokenShared, detachedAccount>>
              ELSE /\ accounts' = Append(accounts, account)
                   /\ IF Len(accounts) < Len(backing)
                      THEN /\ backing' = [backing EXCEPT ![Len(accounts) + 1] = account]
                           /\ UNCHANGED <<tokenShared, detachedAccount>>
                      ELSE /\ backing' = grownArray(accounts, account, Len(backing))
                           /\ Detach
    /\ UNCHANGED <<currentIndex, token, handedOut, pointerKeeps>>

\* Clear() from the admin API, whole: s.accounts = []Account{}.
ClearEntries ==
    /\ accounts # <<>>
    /\ accounts' = <<>>
    /\ backing' = <<>>
    /\ currentIndex' = 0
    /\ Detach
    /\ UNCHANGED <<token, handedOut, pointerKeeps>>

\* RefreshAccount(index) of an entry other than the one the request holds.
RefreshOtherEntry ==
    /\ \E j \in 1..Len(accounts) :
          /\ ~(tokenShared /\ token = j)
          /\ accounts[j].AccessToken # "t1"
          /\ accounts' = [accounts EXCEPT ![j] = RefreshToken(@, 900, now)]
          /\ backing' = [backing EXCEPT ![j] = RefreshToken(@, 900, now)]
    /\ UNCHANGED <<currentIndex, token, tokenShared, detachedAccount, handedOut,
                   pointerKeeps>>

------------------------------------------------------------------------------
(***************************************************************************)
(* OpenAI messages to canonical Contents (openai.convertMessages)          *)
(***************************************************************************)

MaxTurns == 4

\* openai.OpenAIMessage; Content is a string, ToolCalls a sequence of
\* [ID, Name], their arguments and signatures left out.
OpenAIMessage(role, content, reasoning, tcs, toolCallID) ==
    [Role |-> role, Content |-> content, Reasoning |-> reasoning,
     ToolCalls |-> tcs, ToolCallID |-> toolCallID]

OpenAIToolCall(id, name) == [ID |-> id, Name |-> name]

EmptyAssistant == OpenAIMessage("assistant", "", "", <<>>, "")

CallingAssistant ==
    OpenAIMessage("assistant", "", "", <<OpenAIToolCall("c1", "f"), OpenAIToolCall("c2", "g")>>, "")

ToolMessage(id) == OpenAIMessage("tool", "out", "", <<>>, id)

\* The messages a request is made of.
OpenAIMessageKinds ==
    {OpenAIMessage("system", "s", "", <<>>, ""),
     OpenAIMessage("user", "u", "", <<>>, ""),
     OpenAIMessage("assistant", "a", "r", <<>>, ""),
     EmptyAssistant,
     CallingAssistant,
     ToolMessage("c1"),
     ToolMessage("c2")}

OpenAIMessageLists == UNION {[1..n -> OpenAIMessageKinds] : n \in 0..MaxTurns}

\* extractParts of a string content.
extractParts(content) == <<Part(content, FALSE, NoFunctionCall, NoFunctionResponse)>>

\* The name of the FunctionCall part with the id, found walking the Contents
\* from the last to the first and the parts of each in order; "" when none.
RECURSIVE findFunctionName(_, _)
findFunctionName(cs, toolCallID) ==
    IF cs = <<>> THEN ""
    ELSE LET parts == cs[Len(cs)].Parts
             S == {j \in 1..Len(parts) : /\ parts[j].FunctionCall # NoFunctionCall
                                         /\ parts[j].FunctionCall[1].ID = toolCallID}
         IN  IF S # {}
             THEN parts[CHOOSE j \in S : \A k \in S : j <= k].FunctionCall[1].Name
             ELSE findFunctionName(SubSeq(cs, 1, Len(cs) - 1), toolCallID)

\* A plausible slip: every tool message opens a user turn of its own.
appendFunctionResponseAlwaysNew(cs, part) ==
    Append(cs, Content("user", <<part>>))

appendFunctionResponse(cs, part) ==
    IF Len(cs) > 0 /\ cs[Len(cs)].Role = "model"
    THEN Append(cs, Content("user", <<part>>))
    ELSE IF Len(cs) > 0 /\ cs[Len(cs)].Role = "user"
    THEN [cs EXCEPT ![Len(cs)].Parts = Append(@, part)]
    ELSE Append(cs, Content("user", <<part>>))

\* The FunctionCall parts of an assistant message's tool calls.
callParts(tcs) ==
    [j \in 1..Len(tcs) |->
        Part("", FALSE, FunctionCall(tcs[j].ID, tcs[j].Name), NoFunctionResponse)]

\* The parts of an assistant message: reasoning, text, tool calls.
assistantParts(msg) ==
    (IF msg.Reasoning # ""
     THEN <<Part(msg.Reasoning, TRUE, NoFunctionCall, NoFunctionResponse)>> ELSE <<>>)
    \o (IF msg.Content # ""
        THEN <<Part(msg.Content, FALSE, NoFunctionCall, NoFunctionResponse)>> ELSE <<>>)
    \o callParts(msg.ToolCalls)

\* The FunctionResponse part of a tool message.
responsePart(cs, msg) ==
    Part("", FALSE, NoFunctionCall,
         FunctionResponse(msg.ToolCallID, findFunctionName(cs, msg.ToolCallID)))

\* One pass of the loop of convertMessages: result after msg.
convertMessage(cs, msg) ==
    CASE msg.Role = "system" -> cs
      [] msg.Role = "user" -> Append(cs, Content("user", extractParts(msg.Content)))
      [] msg.Role = "assistant" ->
            IF Len(assistantParts(msg)) > 0
            THEN Append(cs, Content("model", assistantParts(msg)))
            ELSE cs
      [] msg.Role = "tool" -> appendFunctionResponse(cs, responsePart(cs, msg))
      [] OTHER -> cs

RECURSIVE convertMessages(_)
convertMessages(msgs) ==
    IF msgs = <<>> THEN <<>>
    ELSE convertMessage(convertMessages(SubSeq(msgs, 1, Len(msgs) - 1)), msgs[Len(msgs)])

IdleOpenAI ==
    /\ openaiMessages = <<>>
    /\ openaiContents = <<>>
    /\ opc = 0

\* The loop of convertMessages takes the next message.
ConvertNextMessage ==
    /\ opc < Len(openaiMessages)
    /\ openaiContents' = convertMessage(openaiContents, openaiMessages[opc + 1])
    /\ opc' = opc + 1
    /\ UNCHANGED <<openaiMessages, otherThanOpenAI>>

------------------------------------------------------------------------------
(***************************************************************************)
(* Gemini request sanitization (gemini.sanitizeRequestContents)           *)
(***************************************************************************)

MaxGeminiParts == 3

\* A Part of a Gemini request; Args, Response and InlineData are left out.
GeminiPart(text, thought, signature, fc, fr) ==
    [Text |-> text, Thought |-> thought, ThoughtSignature |-> signature,
     FunctionCall |-> fc, FunctionResponse |-> fr]

\* The parts a request is made of: an empty one, one with a signature only,
\* text, a signed thought, a call without and one with a signature, a
\* response without its name.
GeminiPartKinds ==
    {GeminiPart("", FALSE, "", NoFunctionCall, NoFunctionResponse),
     GeminiPart("", FALSE, "sig0", NoFunctionCall, NoFunctionResponse),
     GeminiPart("t", FALSE, "", NoFunctionCall, NoFunctionResponse),
     GeminiPart("r", TRUE, "sig1", NoFunctionCall, NoFunctionResponse),
     GeminiPart("", FALSE, "", FunctionCall("c1", "f"), NoFunctionResponse),
     GeminiPart("", FALSE, "sig2", FunctionCall("c2", "g"), NoFunctionResponse),
     GeminiPart("", FALSE, "", NoFunctionCall, FunctionResponse("c1", ""))}

\* A model turn and a user turn that share up to MaxGeminiParts parts.
GeminiRequests ==
    UNION {{<<Content("model", SubSeq(ps, 1, k)), Content("user", SubSeq(ps, k + 1, n))>> :
               ps \in [1..n -> GeminiPartKinds], k \in 0..n} : n \in 0..MaxGeminiParts}
    \cup {<<>>}

\* All parts of the Contents in order.
RECURSIVE partsOf(_)
partsOf(cs) == IF cs = <<>> THEN <<>> ELSE cs[1].Parts \o partsOf(Tail(cs))

\* toolIDToName after the first loop: the name of the last FunctionCall with
\* the id among those with an id and a name, "" when the map has no entry.
toolIDToNameAt(cs, id) ==
    LET ps == partsOf(cs)
        S == {j \in 1..Len(ps) : /\ ps[j].FunctionCall # NoFunctionCall
                                 /\ ps[j].FunctionCall[1].ID # ""
                                 /\ ps[j].FunctionCall[1].Name # ""
                                 /\ ps[j].FunctionCall[1].ID = id}
    IN  IF S = {} THEN "" ELSE ps[CHOOSE j \in S : \A k \in S : k <= j].FunctionCall[1].Name

\* The last non-empty thoughtSignature of the request, "" when none.
lastSignatureOf(cs) ==
    LET ps == partsOf(cs)
        S == {j \in 1..Len(ps) : ps[j].ThoughtSignature # ""}
    IN  IF S = {} THEN "" ELSE ps[CHOOSE j \in S : \A k \in S : k <= j].ThoughtSignature

\* The part has no payload at all and is dropped.
droppedPart(part) ==
    /\ part.Text = ""
    /\ part.FunctionCall = NoFunctionCall
    /\ part.FunctionResponse = NoFunctionResponse
    /\ ~part.Thought
    /\ part.ThoughtSignature = ""

\* The part with the name of its FunctionResponse filled in from the map.
namedPart(part, cs) ==
    IF /\ part.FunctionResponse # NoFunctionResponse
       /\ part.FunctionResponse[1].Name = ""
       /\ toolIDToNameAt(cs, part.FunctionResponse[1].ID) # ""
    THEN [part EXCEPT !.FunctionResponse =
             FunctionResponse(part.FunctionResponse[1].ID,
                              toolIDToNameAt(cs, part.FunctionResponse[1].ID))]
    ELSE part

\* The earlier revision of the function: a FunctionCall with an id and no
\* signature is given the last signature seen in the request.
sanitizePartForwarding(part, cs) ==
    IF /\ part.FunctionCall # NoFunctionCall
       /\ part.FunctionCall[1].ID # ""
       /\ part.ThoughtSignature = ""
    THEN [namedPart(part, cs) EXCEPT !.ThoughtSignature = lastSignatureOf(cs)]
    ELSE namedPart(part, cs)

\* What the second loop appends for a part it keeps.
sanitizePart(part, cs) == namedPart(part, cs)

\* newParts of one Content.
RECURSIVE sanitizeParts(_, _)
sanitizeParts(parts, cs) ==
    IF parts = <<>> THEN <<>>
    ELSE IF droppedPart(parts[1]) THEN sanitizeParts(Tail(parts), cs)
    ELSE <<sanitizePart(parts[1], cs)>> \o sanitizeParts(Tail(parts), cs)

\* The second loop over the Contents from position i on.
RECURSIVE sanitizeFrom(_, _)
sanitizeFrom(cs, i) ==
    IF i > Len(cs) THEN <<>>
    ELSE LET newParts == sanitizeParts(cs[i].Parts, cs)
         IN  (IF Len(newParts) > 0 THEN <<Content(cs[i].Role, newParts)>> ELSE <<>>)
             \o sanitizeFrom(cs, i + 1)

sanitizeRequestContents(cs) ==
    IF Len(cs) = 0 THEN cs ELSE sanitizeFrom(cs, 1)

IdleGemini ==
    /\ geminiContents = <<>>
    /\ sanitized = <<>>
    /\ npc = "idle"

\* ConvertGeminiToAntigravity calls sanitizeRequestContents(geminiReq.Contents).
SanitizeRequestContents ==
    /\ npc = "call"
    /\ sanitized' = sanitizeRequestContents(geminiContents)
    /\ npc' = "done"
    /\ UNCHANGED <<geminiContents, otherThanGemini>>

------------------------------------------------------------------------------
(***************************************************************************)
(* Upstream response to OpenAI completion (openai.ConvertToOpenAIResponse)  *)
(***************************************************************************)

MaxCandidateParts == 3

\* The parts an upstream candidate is made of; Text is a sequence of bytes.
CandidatePartKinds == {TextPart, ThoughtPart, EmptyPart, CallPart("c1", "f")}

\* Upstream responses: no candidate, or one with up to MaxCandidateParts parts.
CandidateLists ==
    {<<>>} \cup {<<ps>> : ps \in UNION {[1..n -> CandidatePartKinds] : n \in 0..MaxCandidateParts}}

NoCompletion == [kind |-> "none"]

\* The goroutine of the request panicked: index out of range.
Panicked == [kind |-> "panic"]

\* openai.OpenAIChatCompletion with its single Choice.
OpenAIChatCompletion(content, reasoning, tcs, finishReason) ==
    [kind |-> "completion", Content |-> content, Reasoning |-> reasoning,
     ToolCalls |-> tcs, FinishReason |-> finishReason]

\* The loop over the parts: content, thinkingContent and toolCalls.
RECURSIVE collectParts(_, _, _, _)
collectParts(parts, content, thinkingContent, tcs) ==
    IF parts = <<>>
    THEN OpenAIChatCompletion(content, thinkingContent, tcs,
                              IF Len(tcs) > 0 THEN "tool_calls" ELSE "stop")
    ELSE LET part == parts[1]
         IN  IF part.Thought
             THEN collectParts(Tail(parts), content, thinkingContent \o part.Text, tcs)
             ELSE IF part.Text # <<>>
             THEN collectParts(Tail(parts), content \o part.Text, thinkingContent, tcs)
             ELSE IF part.FunctionCall # NoFunction
             THEN collectParts(Tail(parts), content, thinkingContent,
                               tcs \o part.FunctionCall)
             ELSE collectParts(Tail(parts), content, thinkingContent, tcs)

\* Candidates[0] is indexed first: with no candidate the call panics.
ConvertToOpenAIResponse(cands) ==
    IF Len(cands) = 0 THEN Panicked
    ELSE collectParts(cands[1], <<>>, <<>>, <<>>)

IdleResponse ==
    /\ upstreamCandidates = <<>>
    /\ completion = NoCompletion
    /\ kpc = "idle"

\* handleNonStreamRequest after GenerateContent returned a response.
HandleNonStreamResponse ==
    /\ kpc = "nonstream"
    /\ completion' = ConvertToOpenAIResponse(upstreamCandidates)
    /\ kpc' = "done"
    /\ UNCHANGED <<upstreamCandidates, otherThanResponse>>

\* handleBypassStream after GenerateContent returned a response.
HandleBypassResponse ==
    /\ kpc = "bypass"
    /\ completion' = ConvertToOpenAIResponse(upstreamCandidates)
    /\ kpc' = "done"
    /\ UNCHANGED <<upstreamCandidates, otherThanResponse>>

------------------------------------------------------------------------------
(***************************************************************************)
(* Reading the upstream SSE body (vertex.ParseStreamWithResult)            *)
(***************************************************************************)

MaxLines == 3

\* A line of the body without its newline: "data: " followed by the JSON of
\* chunk n, "data: [DONE]", "data: " followed by something that is no JSON,
\* or a line without the prefix (blank, comment).
DataLine(n) == [prefix |-> TRUE, json |-> TRUE, done |-> FALSE, chunk |-> n]

DoneLine == [prefix |-> TRUE, json |-> FALSE, done |-> TRUE, chunk |-> 0]

MalformedLine == [prefix |-> TRUE, json |-> FALSE, done |-> FALSE, chunk |-> 0]

OtherLine == [prefix |-> FALSE, json |-> FALSE, done |-> FALSE, chunk |-> 0]

SSELineKinds == {DataLine(1), DataLine(2), DoneLine, MalformedLine, OtherLine}

SSEBodies == UNION {[1..n -> SSELineKinds] : n \in 0..MaxLines}

\* bufReader.ReadString('\n') after n lines were returned: the next line and
\* whether the error is io.EOF.  A last line without newline comes back
\* together with io.EOF; after the last newline there is "" and io.EOF.
readString(lines, terminated, n) ==
    IF n >= Len(lines) THEN [line |-> OtherLine, eof |-> TRUE]
    ELSE [line |-> lines[n + 1], eof |-> (n + 1 = Len(lines) /\ ~terminated)]

IdleParse ==
    /\ sseLines = <<>>
    /\ lastTerminated = TRUE
    /\ lpos = 0
    /\ delivered = <<>>
    /\ ppc = "idle"

\* One pass of the loop: ReadString, the io.EOF break, the trims, the prefix
\* test, the [DONE] break, the two json.Unmarshal calls, receiver(&data).
\* The receiver returns nil and the body gives no error other than io.EOF.
ReadLine ==
    /\ ppc = "read"
    /\ LET r == readString(sseLines, lastTerminated, lpos)
       IN  IF r.eof
           THEN /\ ppc' = "done"
                /\ UNCHANGED <<lpos, delivered>>
           ELSE /\ lpos' = lpos + 1
                /\ IF ~r.line.prefix
                   THEN UNCHANGED <<ppc, delivered>>
                   ELSE IF r.line.done
                   THEN /\ ppc' = "done"
                        /\ UNCHANGED delivered
                   ELSE IF ~r.line.json
                   THEN UNCHANGED <<ppc, delivered>>
                   ELSE /\ delivered' = Append(delivered, r.line.chunk)
                        /\ UNCHANGED ppc
    /\ UNCHANGED <<sseLines, lastTerminated, otherThanParse>>

------------------------------------------------------------------------------
(***************************************************************************)
(* Specifications                                                          *)
(***************************************************************************)

InitClaude ==
    /\ \E tokens \in {0, 3} : EmitterIs(NewSSEEmitter(tokens))
    /\ cpc = "new"
    /\ fed = 0
    /\ history = <<>>
    /\ IdleWriter
    /\ IdleUtf8
    /\ IdlePool
    /\ IdleRotation
    /\ IdleRetry
    /\ IdleBypass
    /\ IdleConvert
    /\ IdleLock
    /\ IdleStream
    /\ IdleConfig
    /\ IdleAuth
    /\ IdleRoute
    /\ IdleAbort
    /\ IdlePointer
    /\ IdleOpenAI
    /\ IdleGemini
    /\ IdleResponse
    /\ IdleParse

NextClaude ==
    \/ Start
    \/ ProcessPart
    \/ Finish

SpecClaude == InitClaude /\ [][NextClaude]_vars

\* A fresh writer and an upstream text to be written in pieces.
InitUtf8 ==
    /\ WriterIs(NewSSEWriter)
    /\ wpc = "open"
    /\ pending \in Texts
    /\ inContent = <<>>
    /\ inReasoning = <<>>
    /\ IdleClaude
    /\ IdlePool
    /\ IdleRotation
    /\ IdleRetry
    /\ IdleBypass
    /\ IdleConvert
    /\ IdleLock
    /\ IdleStream
    /\ IdleConfig
    /\ IdleAuth
    /\ IdleRoute
    /\ IdleAbort
    /\ IdlePointer
    /\ IdleOpenAI
    /\ IdleGemini
    /\ IdleResponse
    /\ IdleParse

NextUtf8 ==
    \/ WriteContent
    \/ WriteReasoning
    \/ WriteFinish

SpecUtf8 == InitUtf8 /\ [][NextUtf8]_vars

\* The pool as loaded from accounts.json, used by any mix of calls.
InitPool ==
    /\ accounts \in InitialPools
    /\ currentIndex = 0
    /\ now = TickMs
    /\ returned = NoReturn
    /\ refreshes = <<>>
    /\ IdleRotation
    /\ IdleClaude
    /\ IdleWriter
    /\ IdleUtf8
    /\ IdleRetry
    /\ IdleBypass
    /\ IdleConvert
    /\ IdleLock
    /\ IdleStream
    /\ IdleConfig
    /\ IdleAuth
    /\ IdleRoute
    /\ IdleAbort
    /\ IdlePointer
    /\ IdleOpenAI
    /\ IdleGemini
    /\ IdleResponse
    /\ IdleParse

NextPool ==
    \/ GetToken
    \/ GetTokenByProjectID
    \/ GetTokenByEmail
    \/ SetEnable
    \/ RefreshAccount
    \/ Tick

SpecPool == InitPool /\ [][NextPool]_vars

\* Three enabled, non-expired accounts in a freshly loaded pool: GetToken
\* calls, one SetEnable(index, false), more GetToken calls.
InitRotation ==
    /\ accounts = ThreeFresh
    /\ currentIndex = 0
    /\ now = TickMs
    /\ returned = NoReturn
    /\ refreshes = <<>>
    /\ log = <<>>
    /\ cut = -1
    /\ IdleClaude
    /\ IdleWriter
    /\ IdleUtf8
    /\ IdleRetry
    /\ IdleBypass
    /\ IdleConvert
    /\ IdleLock
    /\ IdleStream
    /\ IdleConfig
    /\ IdleAuth
    /\ IdleRoute
    /\ IdleAbort
    /\ IdlePointer
    /\ IdleOpenAI
    /\ IdleGemini
    /\ IdleResponse
    /\ IdleParse

NextRotation ==
    \/ Acquire
    \/ Disable

SpecRotation == InitRotation /\ [][NextRotation]_vars

\* One WithRetry call under some configuration.
InitRetry ==
    /\ RetryMaxAttempts \in 0..MaxAttempts
    /\ RetryStatusCodes \in {{429, 500}, {429}, {}}
    /\ rpc = "call"
    /\ attempt = 0
    /\ lastErr = Nil
    /\ delay = 0
    /\ timerFired = FALSE
    /\ cancelled = FALSE
    /\ retryResult = Nil
    /\ calls = 0
    /\ waits = <<>>
    /\ outcomes = <<>>
    /\ IdleClaude
    /\ IdleWriter
    /\ IdleUtf8
    /\ IdlePool
    /\ IdleRotation
    /\ IdleBypass
    /\ IdleConvert
    /\ IdleLock
    /\ IdleStream
    /\ IdleConfig
    /\ IdleAuth
    /\ IdleRoute
    /\ IdleAbort
    /\ IdlePointer
    /\ IdleOpenAI
    /\ IdleGemini
    /\ IdleResponse
    /\ IdleParse

NextRetry ==
    \/ Attempt
    \/ Exhausted
    \/ TimerFires
    \/ SelectTimer
    \/ SelectDone
    \/ Cancel

SpecRetry == InitRetry /\ [][NextRetry]_vars

\* One bypass streaming request, under every interleaving of the handler,
\* the heartbeat goroutine and the ticker.
InitBypass ==
    /\ WriterIs(NewSSEWriter)
    /\ bpc = "start"
    /\ hpc = "none"
    /\ tick = FALSE
    /\ clientGone = FALSE
    /\ seconds = 0
    /\ latency = 0
    /\ resp = NoResponse
    /\ arrivedAt = -1
    /\ IdleClaude
    /\ IdleUtf8
    /\ IdlePool
    /\ IdleRotation
    /\ IdleRetry
    /\ IdleConvert
    /\ IdleLock
    /\ IdleStream
    /\ IdleConfig
    /\ IdleAuth
    /\ IdleRoute
    /\ IdleAbort
    /\ IdlePointer
    /\ IdleOpenAI
    /\ IdleGemini
    /\ IdleResponse
    /\ IdleParse

HandlerStep ==
    \/ FirstHeartbeat
    \/ UpstreamReturns
    \/ ErrorContent
    \/ ErrorFinish
    \/ Convert
    \/ ReplyReasoning
    \/ ReplyToolCalls
    \/ ReplyContent
    \/ ReplyFinish

GoroutineStep ==
    \/ SelectTick
    \/ SelectExit
    \/ HeartbeatWrite

NextBypass ==
    \/ HandlerStep
    \/ GoroutineStep
    \/ TickerFires
    \/ ClientLeaves

SpecBypass == InitBypass /\ [][NextBypass]_vars

\* The same request when the goroutine keeps up with the ticker.
NextBypassInTime ==
    \/ HandlerStep
    \/ GoroutineStep
    \/ TickerFiresInTime
    \/ ClientLeaves

SpecBypassInTime == InitBypass /\ [][NextBypassInTime]_vars

InitConvert ==
    /\ messages \in Requests
    /\ thinkingEnabled \in BOOLEAN
    /\ contents = <<>>
    /\ vpc = "request"
    /\ IdleClaude
    /\ IdleWriter
    /\ IdleUtf8
    /\ IdlePool
    /\ IdleRotation
    /\ IdleRetry
    /\ IdleBypass
    /\ IdleLock
    /\ IdleStream
    /\ IdleConfig
    /\ IdleAuth
    /\ IdleRoute
    /\ IdleAbort
    /\ IdlePointer
    /\ IdleOpenAI
    /\ IdleGemini
    /\ IdleResponse
    /\ IdleParse

NextConvert == ConvertMessages

SpecConvert == InitConvert /\ [][NextConvert]_vars

\* Goroutines calling the store concurrently; two accounts with the same
\* project, each expired or not.
InitLock ==
    /\ accounts \in {<<Account("A", "p1", TRUE, x[1], x[2]),
                       Account("B", "p1", TRUE, y[1], y[2])>> :
                        x \in {<<0, 0>>, <<TickMs, 900>>},
                        y \in {<<0, 0>>, <<TickMs, 900>>}}
    /\ currentIndex = 0
    /\ now = TickMs
    /\ returned = NoReturn
    /\ refreshes = <<>>
    /\ muWriter = NoProc
    /\ muReaders = {}
    /\ proc = [p \in Procs |-> Outside]
    /\ inflight = {}
    /\ IdleRotation
    /\ IdleClaude
    /\ IdleWriter
    /\ IdleUtf8
    /\ IdleRetry
    /\ IdleBypass
    /\ IdleConvert
    /\ IdleStream
    /\ IdleConfig
    /\ IdleAuth
    /\ IdleRoute
    /\ IdleAbort
    /\ IdlePointer
    /\ IdleOpenAI
    /\ IdleGemini
    /\ IdleResponse
    /\ IdleParse

NextLock ==
    \E p \in Procs :
        \/ CallStore(p)
        \/ Lock(p)
        \/ RLock(p)
        \/ RUnlock(p)
        \/ GetTokenStep(p)
        \/ GetTokenByStep(p)
        \/ RefreshAccountStep(p)
        \/ RefreshAllStep(p)
        \/ RefreshReturns(p)
        \/ SetEnableStep(p)
        \/ DeleteStep(p)
        \/ AddStep(p)
        \/ ClearStep(p)

SpecLock == InitLock /\ [][NextLock]_vars

\* One non-bypass OpenAI streaming request.
InitStream ==
    /\ WriterIs(NewSSEWriter)
    /\ spc = "start"
    /\ upstream = <<>>
    /\ IdleUtf8
    /\ IdleClaude
    /\ IdlePool
    /\ IdleRotation
    /\ IdleRetry
    /\ IdleBypass
    /\ IdleConvert
    /\ IdleLock
    /\ IdleConfig
    /\ IdleAuth
    /\ IdleRoute
    /\ IdleAbort
    /\ IdlePointer
    /\ IdleOpenAI
    /\ IdleGemini
    /\ IdleResponse
    /\ IdleParse

NextStream ==
    \/ StreamRefused
    \/ StreamOpens
    \/ StreamChunk
    \/ StreamEnds

SpecStream == InitStream /\ [][NextStream]_vars

\* One request of either dialect, converted.
InitConfig ==
    /\ genRequest \in ClaudeRequests \cup OpenAIRequests
    /\ genResult = NoUpstream
    /\ gpc = "request"
    /\ IdleClaude
    /\ IdleWriter
    /\ IdleUtf8
    /\ IdlePool
    /\ IdleRotation
    /\ IdleRetry
    /\ IdleBypass
    /\ IdleConvert
    /\ IdleLock
    /\ IdleStream
    /\ IdleAuth
    /\ IdleRoute
    /\ IdleAbort
    /\ IdlePointer
    /\ IdleOpenAI
    /\ IdleGemini
    /\ IdleResponse
    /\ IdleParse

NextConfig ==
    \/ ConvertClaude
    \/ ConvertOpenAI

SpecConfig == InitConfig /\ [][NextConfig]_vars

\* One request arrives at the middleware.
InitAuth ==
    /\ apiKey \in {"", "sk-key"}
    /\ authRequest \in AuthRequests
    /\ authOutcome = ""
    /\ IdleClaude
    /\ IdleWriter
    /\ IdleUtf8
    /\ IdlePool
    /\ IdleRotation
    /\ IdleRetry
    /\ IdleBypass
    /\ IdleConvert
    /\ IdleLock
    /\ IdleStream
    /\ IdleConfig
    /\ IdleRoute
    /\ IdleAbort
    /\ IdlePointer
    /\ IdleOpenAI
    /\ IdleGemini
    /\ IdleResponse
    /\ IdleParse

NextAuth ==
    \/ RequireAPIKey

SpecAuth == InitAuth /\ [][NextAuth]_vars

\* One request arrives at one of the three routes.
InitRoute ==
    /\ routeRequest \in RouteRequests
    /\ acquisition = NoAcquisition
    /\ httpStatus = 0
    /\ handler = ""
    /\ qpc = "request"
    /\ IdleClaude
    /\ IdleWriter
    /\ IdleUtf8
    /\ IdlePool
    /\ IdleRotation
    /\ IdleRetry
    /\ IdleBypass
    /\ IdleConvert
    /\ IdleLock
    /\ IdleStream
    /\ IdleConfig
    /\ IdleAuth
    /\ IdleAbort
    /\ IdlePointer
    /\ IdleOpenAI
    /\ IdleGemini
    /\ IdleResponse
    /\ IdleParse

NextRoute ==
    \/ HandleChatCompletions
    \/ HandleChatCompletionsWithCredential
    \/ HandleClaudeMessages

SpecRoute == InitRoute /\ [][NextRoute]_vars

\* One streaming response of either dialect, upstream already answering.
InitAbort ==
    /\ served \in {"openai", "claude"}
    /\ apc = "start"
    /\ cause = ""
    /\ writeFailed = FALSE
    /\ received = 0
    /\ resultFinishReason = ""
    /\ finishCalls = 0
    /\ IdleClaude
    /\ IdleWriter
    /\ IdleUtf8
    /\ IdlePool
    /\ IdleRotation
    /\ IdleRetry
    /\ IdleBypass
    /\ IdleConvert
    /\ IdleLock
    /\ IdleStream
    /\ IdleConfig
    /\ IdleAuth
    /\ IdleRoute
    /\ IdlePointer
    /\ IdleOpenAI
    /\ IdleGemini
    /\ IdleResponse
    /\ IdleParse

NextAbort ==
    \/ ResponseStarts
    \/ ReceiverReturns
    \/ ParserEnds
    \/ ParserFails
    \/ ReceiverFails
    \/ HandlerFinishes

SpecAbort == InitAbort /\ [][NextAbort]_vars

\* One request holding a credential while the admin API changes the pool of
\* two accounts, loaded into an array with or without a spare slot.
InitPointer ==
    /\ accounts = <<Account("A", "p1", TRUE, TickMs, 900),
                    Account("B", "p1", TRUE, TickMs, 900)>>
    /\ currentIndex = 0
    /\ now = TickMs
    /\ returned = NoReturn
    /\ refreshes = <<>>
    /\ backing \in {accounts, Append(accounts, ZeroAccount)}
    /\ token = 0
    /\ tokenShared = FALSE
    /\ detachedAccount = ZeroAccount
    /\ handedOut = ZeroAccount
    /\ IdleRotation
    /\ IdleClaude
    /\ IdleWriter
    /\ IdleUtf8
    /\ IdleRetry
    /\ IdleBypass
    /\ IdleConvert
    /\ IdleLock
    /\ IdleStream
    /\ IdleConfig
    /\ IdleAuth
    /\ IdleRoute
    /\ IdleAbort
    /\ IdleOpenAI
    /\ IdleGemini
    /\ IdleResponse
    /\ IdleParse

NextPointer ==
    \/ TokenHandedOut
    \/ RequestEnds
    \/ DeleteEntry
    \/ AddEntry
    \/ ClearEntries
    \/ RefreshOtherEntry

SpecPointer == InitPointer /\ [][NextPointer]_vars

\* convertMessages on one list of up to MaxTurns messages.
InitOpenAI ==
    /\ openaiMessages \in OpenAIMessageLists
    /\ openaiContents = <<>>
    /\ opc = 0
    /\ IdleClaude
    /\ IdleWriter
    /\ IdleUtf8
    /\ IdlePool
    /\ IdleRotation
    /\ IdleRetry
    /\ IdleBypass
    /\ IdleConvert
    /\ IdleLock
    /\ IdleStream
    /\ IdleConfig
    /\ IdleAuth
    /\ IdleRoute
    /\ IdleAbort
    /\ IdlePointer
    /\ IdleGemini
    /\ IdleResponse
    /\ IdleParse

NextOpenAI == ConvertNextMessage

SpecOpenAI == InitOpenAI /\ [][NextOpenAI]_vars

\* sanitizeRequestContents on one request.
InitGemini ==
    /\ geminiContents \in GeminiRequests
    /\ sanitized = <<>>
    /\ npc = "call"
    /\ IdleClaude
    /\ IdleWriter
    /\ IdleUtf8
    /\ IdlePool
    /\ IdleRotation
    /\ IdleRetry
    /\ IdleBypass
    /\ IdleConvert
    /\ IdleLock
    /\ IdleStream
    /\ IdleConfig
    /\ IdleAuth
    /\ IdleRoute
    /\ IdleAbort
    /\ IdlePointer
    /\ IdleOpenAI
    /\ IdleResponse
    /\ IdleParse

NextGemini == SanitizeRequestContents

SpecGemini == InitGemini /\ [][NextGemini]_vars

\* One upstream response in the non-streaming or in the bypass handler.
InitResponse ==
    /\ upstreamCandidates \in CandidateLists
    /\ completion = NoCompletion
    /\ kpc \in {"nonstream", "bypass"}
    /\ IdleClaude
    /\ IdleWriter
    /\ IdleUtf8
    /\ IdlePool
    /\ IdleRotation
    /\ IdleRetry
    /\ IdleBypass
    /\ IdleConvert
    /\ IdleLock
    /\ IdleStream
    /\ IdleConfig
    /\ IdleAuth
    /\ IdleRoute
    /\ IdleAbort
    /\ IdlePointer
    /\ IdleOpenAI
    /\ IdleGemini
    /\ IdleParse

NextResponse ==
    \/ HandleNonStreamResponse
    \/ HandleBypassResponse

SpecResponse == InitResponse /\ [][NextResponse]_vars

\* ParseStreamWithResult on one body of up to MaxLines lines.
InitParse ==
    /\ sseLines \in SSEBodies
    /\ lastTerminated \in (IF sseLines = <<>> THEN {TRUE} ELSE BOOLEAN)
    /\ lpos = 0
    /\ delivered = <<>>
    /\ ppc = "read"
    /\ IdleClaude
    /\ IdleWriter
    /\ IdleUtf8
    /\ IdlePool
    /\ IdleRotation
    /\ IdleRetry
    /\ IdleBypass
    /\ IdleConvert
    /\ IdleLock
    /\ IdleStream
    /\ IdleConfig
    /\ IdleAuth
    /\ IdleRoute
    /\ IdleAbort
    /\ IdlePointer
    /\ IdleOpenAI
    /\ IdleGemini
    /\ IdleResponse

NextParse == ReadLine

SpecParse == InitParse /\ [][NextParse]_vars

------------------------------------------------------------------------------
(***************************************************************************)
(* Properties of the Claude SSE emitter                                    *)
(***************************************************************************)

IsStart(i) == events[i].type = "content_block_start"
IsStop(i) == events[i].type = "content_block_stop"
IsDelta(i) == events[i].type = "content_block_delta"

\* Block k has been started and not yet stopped just before position i.
OpenBefore(k, i) ==
    /\ \E s \in 1..(i - 1) : IsStart(s) /\ events[s].index = k
    /\ ~ \E t \in 1..(i - 1) : IsStop(t) /\ events[t].index = k

\* C1: the emitted events always form a valid nesting: an index is started
\* once and stopped once, a block starts only when every earlier block has
\* been stopped, every delta lies inside its own open block, and once Finish
\* has written message_stop as the last event every started block is stopped.
C1_ValidNesting ==
    LET n == Len(events) IN
    /\ \A i \in 1..n : IsStart(i) =>
          /\ \A j \in 1..n :
                (IsStart(j) /\ events[j].index = events[i].index) => j = i
          /\ \A s \in 1..(i - 1) : IsStart(s) =>
                \E t \in (s + 1)..(i - 1) :
                    IsStop(t) /\ events[t].index = events[s].index
    /\ \A i \in 1..n : IsStop(i) =>
          /\ \E s \in 1..(i - 1) : IsStart(s) /\ events[s].index = events[i].index
          /\ \A j \in 1..n :
                (IsStop(j) /\ events[j].index = events[i].index) => j = i
    /\ \A i \in 1..n : IsDelta(i) => OpenBefore(events[i].index, i)
    /\ (n > 0 /\ events[n].type = "message_stop") =>
          \A s \in 1..n : IsStart(s) =>
              \E t \in (s + 1)..n : IsStop(t) /\ events[t].index = events[s].index

\* A finished response that went text -> thinking -> tool_use: three blocks.
C1_Witness ==
    /\ Len(events) > 0
    /\ events[Len(events)].type = "message_stop"
    /\ \E a, b, c \in 1..Len(events) :
          /\ a < b /\ b < c
          /\ IsStart(a) /\ events[a].kind = "text"
          /\ IsStart(b) /\ events[b].kind = "thinking"
          /\ IsStart(c) /\ events[c].kind = "tool_use"

\* The events a step appends.
NewEvents == SubSeq(events', Len(events) + 1, Len(events'))

\* C10: a step that closes the thinking block k while a captured signature is
\* pending appends signature_delta(k, that signature) immediately followed by
\* content_block_stop(k); it is the only signature_delta of block k, every
\* thinking_delta of block k precedes it, and the pending signature is cleared.
\* A step that closes block k with no signature pending stops it without any
\* signature_delta.
C10_ClosingStep ==
    (thinkingBlockIndex # NilIndex /\ thinkingBlockIndex' = NilIndex) =>
        LET k == thinkingBlockIndex
            m == Len(events')
        IN  IF pendingSignature # ""
            THEN /\ \E p \in (Len(events) + 1)..(m - 1) :
                       /\ events'[p] = Ev("content_block_delta", k,
                                          "signature_delta", pendingSignature)
                       /\ events'[p + 1] = Ev("content_block_stop", k, "", "")
                       /\ \A q \in 1..m :
                             (events'[q].type = "content_block_delta"
                                /\ events'[q].index = k /\ q # p)
                             => (events'[q].kind = "thinking_delta" /\ q < p)
                 /\ pendingSignature' = ""
            ELSE /\ \E p \in (Len(events) + 1)..m :
                       events'[p] = Ev("content_block_stop", k, "", "")
                 /\ \A q \in 1..m :
                       (events'[q].type = "content_block_delta"
                          /\ events'[q].index = k)
                       => events'[q].kind = "thinking_delta"

C10_SignatureBeforeStop == [][C10_ClosingStep]_vars

\* A thinking block closed by Finish with its signature delivered before the stop.
C10_Witness ==
    /\ finished
    /\ \E p \in 2..(Len(events) - 2) :
          /\ events[p].kind = "signature_delta"
          /\ events[p].data = "S2"
          /\ events[p + 1].type = "content_block_stop"
          /\ events[p + 1].index = events[p].index
          /\ events[p - 1].kind = "thinking_delta"
          /\ events[p + 2].type = "message_delta"

------------------------------------------------------------------------------
(***************************************************************************)
(* Properties of the OpenAI SSE writer's UTF-8 handling                    *)
(***************************************************************************)

\* The frames of one kind, in the order written.
FramesOf(kind) == SelectSeq(frames, LAMBDA f : f.kind = kind)

RECURSIVE ConcatBytes(_)
ConcatBytes(fs) ==
    IF fs = <<>> THEN <<>> ELSE Head(fs).bytes \o ConcatBytes(Tail(fs))

RECURSIVE ConcatWire(_)
ConcatWire(fs) ==
    IF fs = <<>> THEN <<>> ELSE jsonString(Head(fs).bytes) \o ConcatWire(Tail(fs))

\* The frames this step wrote.
NewFrames == SubSeq(frames', Len(frames) + 1, Len(frames'))

NewContent == SelectSeq(NewFrames, LAMBDA f : f.kind = "content")

Ni == SubSeq(NiHao, 1, 3)

Hao == SubSeq(NiHao, 4, 6)

\* s holds a lead byte that is not followed by all its continuation bytes.
HasIncomplete(s) ==
    \E i \in 1..Len(s) :
        /\ s[i] >= 192
        /\ LET expectedLen == IF s[i] >= 240 THEN 4 ELSE IF s[i] >= 224 THEN 3 ELSE 2
           IN  \E j \in 1..(expectedLen - 1) :
                   i + j > Len(s) \/ ~IsCont(s[i + j])

\* s is the beginning of some well-formed text: well-formed characters
\* followed by nothing or by the first bytes of one more.
IsValidPrefix(s) ==
    \/ Valid(s)
    \/ \E c \in {<<128>>, <<160>>, <<128, 128>>, <<160, 128>>,
                 <<128, 128, 128>>, <<160, 128, 128>>} : Valid(s \o c)

\* "你好" has been written in two calls, the stream is finished, and the two
\* content deltas are 你 and 好.
NiHaoWritten ==
    /\ wpc = "finished"
    /\ inContent = NiHao
    /\ Len(FramesOf("content")) = 2
    /\ FramesOf("content")[1].bytes = Ni
    /\ FramesOf("content")[2].bytes = Hao
    /\ FramesOf("content")[2].by = "write"

\* "你好" written as its first 5 bytes and then its last byte: the first call
\* emits 你 and the second emits 好.
NiHaoStep ==
    /\ (inContent = <<>> /\ inContent' = SubSeq(NiHao, 1, 5))
          => (Len(NewContent) = 1 /\ NewContent[1].bytes = Ni)
    /\ (inContent = SubSeq(NiHao, 1, 5) /\ inContent' = NiHao)
          => (Len(NewContent) = 1 /\ NewContent[1].bytes = Hao)

NiHaoSplit == [][NiHaoStep]_vars

\* C2: for any byte sequence split arbitrarily across WriteContent calls and
\* followed by WriteFinish, the concatenation of the content fields of the
\* emitted deltas equals the concatenation of the inputs: at every moment the
\* content deltas written so far followed by the retained bytes are the bytes
\* given to WriteContent, and after WriteFinish nothing is retained.
C2_ContentConserved ==
    /\ ConcatBytes(FramesOf("content")) \o contentBuffer = inContent
    /\ wpc = "finished" =>
          /\ contentBuffer = <<>>
          /\ ConcatBytes(FramesOf("content")) = inContent

\* The same for the texts that are well-formed UTF-8, where it holds; what the
\* client decodes is then the input itself.
WellFormedConserved ==
    IsValidPrefix(inContent) =>
        /\ ConcatBytes(FramesOf("content")) \o contentBuffer = inContent
        /\ wpc = "finished" =>
              /\ ConcatBytes(FramesOf("content")) = inContent
              /\ ConcatWire(FramesOf("content")) = jsonString(inContent)

IsTextFrame(f) == f.kind \in {"content", "reasoning"}

InputOf(f) == IF f.kind = "content" THEN inContent ELSE inReasoning

------------------------------------------------------------------------------
(***************************************************************************)
(* Properties of the credential pool                                       *)
(***************************************************************************)

Order == <<"A", "B", "C">>

\* The e-mail the j-th GetToken call after SetEnable(d - 1, false) returns when
\* SetEnable was called after n calls: the accounts other than d, in cyclic
\* order from the cursor.
ExpectAfter(n, d, j) ==
    LET rest == SelectSeq([k \in 1..3 |-> ((n + k - 1) % 3) + 1], LAMBDA i : i # d)
    IN  Order[rest[((j - 1) % 2) + 1]]

Disabled == CHOOSE d \in 1..3 : ~accounts[d].Enable

\* C4: with three enabled, non-expired credentials A, B, C, nine consecutive
\* GetToken calls return A,B,C,A,B,C,A,B,C, and after B is disabled six
\* further calls return A,C,A,C,A,C; more generally the calls before the
\* SetEnable go round A, B, C and the calls after it go round the two accounts
\* left, from where the cursor stands.
C4_RoundRobin ==
    /\ \A k \in 1..(IF cut = -1 THEN Len(log) ELSE cut) :
          log[k] = Order[((k - 1) % 3) + 1]
    /\ (Len(log) >= 9 /\ cut \notin 0..8) =>
          SubSeq(log, 1, 9) = <<"A", "B", "C", "A", "B", "C", "A", "B", "C">>
    /\ cut >= 0 =>
          \A k \in (cut + 1)..Len(log) : log[k] = ExpectAfter(cut, Disabled, k - cut)
    /\ (cut = 9 /\ Disabled = 2 /\ Len(log) = 15) =>
          SubSeq(log, 10, 15) = <<"A", "C", "A", "C", "A", "C">>

\* Nine calls, then B disabled, then six more calls.
C4_Witness ==
    /\ cut = 9
    /\ ~accounts[2].Enable
    /\ Len(log) = 15

\* C5: every credential returned by GetToken, GetTokenByProjectID or
\* GetTokenByEmail is, at the moment it is returned, enabled and not expired.
C5_ReturnedUsable ==
    returned.idx # NoAccount =>
        /\ accounts[returned.idx].Enable
        /\ ~IsExpired(accounts[returned.idx], now)

\* What holds instead: a returned credential is enabled, and it is unexpired
\* unless this call refreshed it and the token response carried a lifetime of
\* at most the 5-minute margin.
ReturnedEnabled ==
    returned.idx # NoAccount =>
        LET a == accounts[returned.idx]
        IN  /\ a.Enable
            /\ IsExpired(a, now) => (a.Timestamp = now /\ a.ExpiresIn * 1000 <= RefreshMargin)

------------------------------------------------------------------------------
(***************************************************************************)
(* Properties of the retry loop                                            *)
(***************************************************************************)

TooManyRequests == Err("api", 429, 500, FALSE)

\* C6: an operation that fails once with APIError{429, retryDelay 500 ms} and
\* then succeeds makes WithRetry return success after a wait of at least
\* 500 ms, the operation invoked exactly twice (429 being a retryable code,
\* at least two attempts being allowed and the context not being cancelled).
C6_RetryAfterDelay ==
    ( /\ rpc = "done"
      /\ 429 \in RetryStatusCodes
      /\ RetryMaxAttempts >= 2
      /\ ~cancelled
      /\ Len(outcomes) >= 1
      /\ outcomes[1] = TooManyRequests
      /\ Len(outcomes) >= 2 => outcomes[2] = Nil )
    => /\ retryResult = Nil
       /\ calls = 2
       /\ outcomes = <<TooManyRequests, Nil>>
       /\ waits = <<500>>

C6_Witness ==
    /\ rpc = "done"
    /\ ~cancelled
    /\ outcomes = <<TooManyRequests, Nil>>
    /\ retryResult = Nil
    /\ waits = <<500>>

\* C7: an upstream failure with status 401 makes WithRetry fail at once,
\* after exactly one invocation and without any wait, and the returned
\* APIError has its DisableToken flag set.
C7_UnauthenticatedDisables ==
    (rpc = "done" /\ Len(outcomes) >= 1
        /\ outcomes[1].kind = "api" /\ outcomes[1].Status = 401)
    => /\ calls = 1
       /\ waits = <<>>
       /\ retryResult = outcomes[1]
       /\ retryResult.DisableToken

\* What holds of a 401: one invocation, no wait, the error returned as it is.
UnauthenticatedNoRetry ==
    (rpc = "done" /\ Len(outcomes) >= 1
        /\ outcomes[1].kind = "api" /\ outcomes[1].Status = 401)
    => /\ calls = 1
       /\ waits = <<>>
       /\ retryResult = outcomes[1]

------------------------------------------------------------------------------
(***************************************************************************)
(* Properties of bypass streaming                                          *)
(***************************************************************************)

\* The frames written after done was closed.
AfterArrival == SubSeq(frames, arrivedAt + 1, Len(frames))

KindsOf(fs) == [i \in 1..Len(fs) |-> fs[i].kind]

ReplyRank(kind) ==
    CASE kind = "reasoning" -> 1
      [] kind = "tool_calls" -> 2
      [] kind = "content" -> 3
      [] kind = "finish" -> 4
      [] kind = "done" -> 5
      [] OTHER -> 0

\* fs holds reasoning, tool-calls, content, finish and [DONE] frames only,
\* each at most once and in this order.
InReplyOrder(fs) ==
    /\ \A i \in 1..Len(fs) : ReplyRank(fs[i].kind) > 0
    /\ \A i, j \in 1..Len(fs) : i < j => ReplyRank(fs[i].kind) < ReplyRank(fs[j].kind)

EndsWithFinishDone(fs) ==
    /\ Len(fs) >= 2
    /\ fs[Len(fs) - 1].kind = "finish"
    /\ fs[Len(fs)].kind = "done"

\* C8: once the upstream response has arrived no further heartbeat chunk is
\* emitted; the frames that follow are at most one reasoning delta, at most
\* one tool-calls delta, at most one content delta, the finish chunk and
\* [DONE], in this order, [DONE] being the last frame.
C8_NoHeartbeatAfterArrival ==
    (DoneClosed /\ ~clientGone) =>
        /\ \A i \in 1..Len(AfterArrival) : AfterArrival[i].kind # "empty"
        /\ InReplyOrder(AfterArrival)
        /\ bpc = "returned" => EndsWithFinishDone(AfterArrival)

\* What holds instead: heartbeat chunks set aside, the frames after the
\* arrival are in that order, and a handler that returns has written finish
\* and [DONE] in a row.
ReplyOrder ==
    (DoneClosed /\ ~clientGone) =>
        LET reply == SelectSeq(AfterArrival, LAMBDA f : f.kind # "empty")
        IN  /\ InReplyOrder(reply)
            /\ bpc = "returned" => EndsWithFinishDone(reply)

\* The position of the first content frame, Len(frames) + 1 when there is none.
FirstContent ==
    IF \E i \in 1..Len(frames) : frames[i].kind = "content"
    THEN CHOOSE i \in 1..Len(frames) :
            /\ frames[i].kind = "content"
            /\ \A j \in 1..(i - 1) : frames[j].kind # "content"
    ELSE Len(frames) + 1

\* The heartbeat chunks between the role chunk and the first content chunk.
HeartbeatsBeforeContent ==
    Cardinality({i \in 2..(FirstContent - 1) : frames[i].kind = "empty"})

------------------------------------------------------------------------------
(***************************************************************************)
(* Framing of the Claude SSE stream                                        *)
(***************************************************************************)

Thought(text) == [thought |-> TRUE, text |-> text, fc |-> NoCall, sig |-> ""]

Text(text) == [thought |-> FALSE, text |-> text, fc |-> NoCall, sig |-> ""]

\* An event without its token counts.
Brief(ev) == <<ev.type, ev.index, ev.kind, ev.data>>

BriefEvents == [i \in 1..Len(events) |-> Brief(events[i])]

\* thought("abc"), thought("def"), text("hi"), finish
ThinkThenText == <<Thought("abc"), Thought("def"), Text("hi"), FinishMark>>

ThinkThenTextEvents ==
    << <<"message_start", NilIndex, "", "">>,
       <<"content_block_start", 0, "thinking", "">>,
       <<"content_block_delta", 0, "thinking_delta", "abc">>,
       <<"content_block_delta", 0, "thinking_delta", "def">>,
       <<"content_block_stop", 0, "", "">>,
       <<"content_block_start", 1, "text", "">>,
       <<"content_block_delta", 1, "text_delta", "hi">>,
       <<"content_block_stop", 1, "", "">>,
       <<"message_delta", NilIndex, "end_turn", "">>,
       <<"message_stop", NilIndex, "", "">> >>

TypeCount(type) == Cardinality({i \in 1..Len(events) : events[i].type = type})

\* C11: message_start is the first event and occurs once; Finish stops every
\* block still open, then writes exactly one message_delta carrying the stop
\* reason and the usage, then message_stop, which is the last event when
\* Finish is the last call; thought("abc"), thought("def"), text("hi"), finish
\* yields exactly the ten events of ThinkThenTextEvents.
C11_Framing ==
    /\ cpc = "streaming" =>
          /\ events[1].type = "message_start"
          /\ TypeCount("message_start") = 1
    /\ ~finished => (TypeCount("message_delta") = 0 /\ TypeCount("message_stop") = 0)
    /\ finished =>
          /\ TypeCount("message_delta") = 1
          /\ TypeCount("message_stop") = 1
          /\ \E k \in 3..Len(events) :
                /\ events[k].type = "message_stop"
                /\ events[k - 1].type = "message_delta"
                /\ events[k - 1].kind \in {"end_turn", "tool_use"}
                /\ events[k - 1].inTokens >= 0 /\ events[k - 1].outTokens >= 0
                /\ \A b \in 0..(nextIndex - 1) : ~OpenBefore(b, k - 1)
    /\ (finished /\ history[Len(history)] = FinishMark) =>
          events[Len(events)].type = "message_stop"
    /\ history = ThinkThenText => BriefEvents = ThinkThenTextEvents

C11_Witness ==
    /\ history = ThinkThenText
    /\ Len(events) = 10
    /\ events[10].type = "message_stop"

------------------------------------------------------------------------------
(***************************************************************************)
(* Claude request translation: thought signature and tool names            *)
(***************************************************************************)

\* The message has a thinking block with a non-empty signature.
CarriesSignature(msg) ==
    /\ ~msg.Content.isString
    /\ \E j \in 1..Len(msg.Content.blocks) :
          /\ msg.Content.blocks[j].type = "thinking"
          /\ msg.Content.blocks[j].signature # ""

\* The parts of the only message of the request, converted without the
\* thinking placeholder.
OnlyParts == IF contents = <<>> THEN <<>> ELSE contents[1].Parts

Signed == {i \in 1..Len(OnlyParts) : OnlyParts[i].ThoughtSignature # ""}

CallParts == {i \in 1..Len(OnlyParts) : OnlyParts[i].FunctionCall # NoFunctionCall}

TextParts ==
    {i \in 1..Len(OnlyParts) :
        /\ OnlyParts[i].Text # ""
        /\ ~OnlyParts[i].Thought
        /\ OnlyParts[i].FunctionCall = NoFunctionCall}

ThoughtParts == {i \in 1..Len(OnlyParts) : OnlyParts[i].Thought}

ByPriority ==
    /\ Cardinality(Signed) = 1
    /\ CallParts # {} => Signed = {MinOf(CallParts)}
    /\ (CallParts = {} /\ TextParts # {}) => Signed = {MaxOf(TextParts)}
    /\ (CallParts = {} /\ TextParts = {} /\ ThoughtParts # {}) =>
          Signed = {MaxOf(ThoughtParts)}

OneSigned ==
    /\ vpc = "converted"
    /\ ~thinkingEnabled
    /\ Len(messages) = 1
    /\ CarriesSignature(messages[1])

\* C12: a message with a non-empty thinking signature converts to Parts of
\* which exactly one has thoughtSignature: the first FunctionCall Part, else
\* the last non-thought Text Part, else the last Thought Part.
C12_ExactlyOneSignature == OneSigned => ByPriority

\* The same for the messages that convert to a FunctionCall, Text or Thought
\* Part at all.
SignatureByPriority ==
    (OneSigned /\ CallParts \cup TextParts \cup ThoughtParts # {}) => ByPriority

SignatureByPriorityWitness ==
    /\ OneSigned
    /\ CallParts # {}
    /\ TextParts # {}
    /\ ThoughtParts # {}
    /\ Signed = {MinOf(CallParts)}

\* Assistant turn i has the block tool_use{id, name}.
Declares(i, id, name) ==
    /\ messages[i].Role = "assistant"
    /\ ~messages[i].Content.isString
    /\ \E j \in 1..Len(messages[i].Content.blocks) :
          messages[i].Content.blocks[j] = ToolUse(id, name)

\* Message k has the block tool_result{tool_use_id: id}.
Answers(k, id) ==
    /\ ~messages[k].Content.isString
    /\ \E j \in 1..Len(messages[k].Content.blocks) :
          messages[k].Content.blocks[j] = ToolResult(id)

\* The FunctionResponse Parts with the given id in the content of message k
\* all have the given name, and there is one.
RespondsAs(k, id, name) ==
    /\ \E p \in 1..Len(contents[k].Parts) :
          /\ contents[k].Parts[p].FunctionResponse # NoFunctionResponse
          /\ contents[k].Parts[p].FunctionResponse[1].ID = id
    /\ \A p \in 1..Len(contents[k].Parts) :
          (/\ contents[k].Parts[p].FunctionResponse # NoFunctionResponse
           /\ contents[k].Parts[p].FunctionResponse[1].ID = id)
          => contents[k].Parts[p].FunctionResponse[1].Name = name

ToolNames == {"f", "g"}

\* Every message of the request gave a content.
AllConverted == vpc = "converted" /\ Len(contents) = Len(messages)

\* C13: when an assistant turn has tool_use{id: X, name: N}, every later
\* tool_result{tool_use_id: X} becomes a FunctionResponse Part with id X and
\* name N.
C13_ToolResultNamed ==
    AllConverted =>
        \A i \in 1..Len(messages), k \in 1..Len(messages), id \in ToolIDs,
           name \in ToolNames :
            (i < k /\ Declares(i, id, name) /\ Answers(k, id))
            => RespondsAs(k, id, name)

\* The same for the requests that use an id for one tool name only.
ToolResultNamedOnce ==
    AllConverted =>
        \A i \in 1..Len(messages), k \in 1..Len(messages), id \in ToolIDs,
           name \in ToolNames :
            (/\ i < k /\ Declares(i, id, name) /\ Answers(k, id)
             /\ \A h \in 1..Len(messages), other \in ToolNames :
                   Declares(h, id, other) => other = name)
            => RespondsAs(k, id, name)

\* A tool_use of the only earlier name, answered, then the id used again.
ReusedLater ==
    /\ AllConverted
    /\ Len(messages) = 3
    /\ Declares(1, "T1", "f")
    /\ Answers(2, "T1")
    /\ Declares(3, "T1", "g")
    /\ ~RespondsAs(2, "T1", "f")

------------------------------------------------------------------------------
(***************************************************************************)
(* GetToken and GetTokenBy...: refresh failures                            *)
(***************************************************************************)

\* The positions GetToken examines from the cursor on, in order.
Examined(a) == ((currentIndex + a) % Len(accounts)) + 1

\* The last call tried to refresh entry i and failed / succeeded.
FailedRefresh(i) ==
    \E k \in 1..Len(refreshes') : refreshes'[k] = <<i, RefreshFailed>>

Refreshed(i) ==
    \E k \in 1..Len(refreshes') :
        refreshes'[k][1] = i /\ refreshes'[k][2] # RefreshFailed

\* Entry i was of no use to the call: disabled, or expired with its refresh
\* failing.
Unusable(i) ==
    \/ ~accounts[i].Enable
    \/ IsExpired(accounts[i], now) /\ FailedRefresh(i)

\* Entry i was of use: enabled, and unexpired or refreshed with success.
Usable(i) ==
    /\ accounts[i].Enable
    /\ \/ ~IsExpired(accounts[i], now) /\ accounts'[i] = accounts[i]
       \/ IsExpired(accounts[i], now) /\ Refreshed(i)

GetTokenReturns == returned'.op = "GetToken" /\ Len(accounts) > 0

\* C14: a GetToken call that reaches an expired account whose refresh fails
\* skips it and returns the next usable one in cursor order; the failed
\* account stays enabled and keeps its old token fields.
C14_FailedRefreshSkipped ==
    [][GetTokenReturns =>
        \A a \in 0..(Len(accounts) - 1) :
            FailedRefresh(Examined(a)) =>
                /\ accounts[Examined(a)].Enable
                /\ accounts'[Examined(a)] = accounts[Examined(a)]
                /\ returned'.idx # Examined(a)
                /\ \/ /\ returned'.idx = NoAccount
                      /\ \A b \in (a + 1)..(Len(accounts) - 1) : Unusable(Examined(b))
                   \/ \E b \in (a + 1)..(Len(accounts) - 1) :
                         /\ returned'.idx = Examined(b)
                         /\ Usable(Examined(b))
                         /\ \A c \in (a + 1)..(b - 1) : Unusable(Examined(c))]_vars

\* A expired with its refresh failing, B returned.
C14_Witness ==
    /\ returned.op = "GetToken"
    /\ returned.idx = 2
    /\ refreshes = <<<<1, RefreshFailed>>>>
    /\ accounts[1].Enable
    /\ accounts[1].AccessToken = "t0"
    /\ IsExpired(accounts[1], now)

\* C15: one GetToken call examines each entry at most once, and fails exactly
\* when no entry is enabled and either unexpired or refreshed with success;
\* otherwise it returns such an entry.
C15_FailsExactlyWhenNoneUsable ==
    [][GetTokenReturns =>
        /\ \A k, l \in 1..Len(refreshes') :
              refreshes'[k][1] = refreshes'[l][1] => k = l
        /\ returned'.idx = NoAccount <=>
              \A i \in 1..Len(accounts) : Unusable(i)
        /\ returned'.idx # NoAccount => Usable(returned'.idx)
        /\ \E n \in 1..Len(accounts) :
              /\ currentIndex' = (currentIndex + n) % Len(accounts)
              /\ \A a \in 0..(n - 2) : Unusable(Examined(a))
              /\ returned'.idx # NoAccount => returned'.idx = Examined(n - 1)
              /\ \A k \in 1..Len(refreshes') :
                    \E a \in 0..(n - 1) : refreshes'[k][1] = Examined(a)]_vars

\* Both accounts examined, none of use: one disabled, one failing its refresh.
C15_Witness ==
    /\ returned.op = "GetToken"
    /\ returned.idx = NoAccount
    /\ returned.err = "no token available"
    /\ Len(accounts) = 2
    /\ Len(refreshes) = 1
    /\ \E i \in 1..2 : ~accounts[i].Enable

GetTokenByReturns ==
    returned'.op \in {"GetTokenByProjectID", "GetTokenByEmail"}

\* Entry j is a candidate of the call that tried to refresh entry i.
SameCandidate(i, j) ==
    IF returned'.op = "GetTokenByProjectID"
    THEN accounts[j].ProjectID = accounts[i].ProjectID
    ELSE accounts[j].Email = accounts[i].Email

\* C16: GetTokenByProjectID and GetTokenByEmail skip a candidate whose refresh
\* fails in favour of the next matching candidate, and fail only when no
\* matching candidate is usable.
C16_ByFailsOnlyWhenNoneUsable ==
    [][(GetTokenByReturns /\ returned'.idx = NoAccount) =>
        \A i \in 1..Len(accounts) :
            FailedRefresh(i) =>
                \A j \in 1..Len(accounts) :
                    SameCandidate(i, j) =>
                        ~(accounts[j].Enable /\ ~IsExpired(accounts[j], now))]_vars

\* What holds instead: the call is decided by the first enabled candidate;
\* it fails when that one is expired and its refresh fails, or when there is
\* no enabled candidate.
ByFirstEnabledCandidate ==
    [][GetTokenByReturns =>
        /\ Len(refreshes') <= 1
        /\ returned'.idx = NoAccount =>
              \/ returned'.err = "account not found" /\ refreshes' = <<>>
              \/ /\ returned'.err = "refresh failed"
                 /\ \E i \in 1..Len(accounts) :
                       /\ refreshes' = <<<<i, RefreshFailed>>>>
                       /\ accounts[i].Enable
                       /\ \A j \in 1..(i - 1) :
                             SameCandidate(i, j) => ~accounts[j].Enable
        /\ returned'.idx # NoAccount => Usable(returned'.idx)
        /\ \A i \in 1..Len(accounts) :
              ~accounts[i].Enable => accounts'[i] = accounts[i]]_vars

\* A's refresh failed and the call failed, B being a usable candidate.
SecondCandidateUnused ==
    /\ returned.op = "GetTokenByProjectID"
    /\ returned.err = "refresh failed"
    /\ refreshes = <<<<1, RefreshFailed>>>>
    /\ Len(accounts) = 2
    /\ accounts[2].ProjectID = accounts[1].ProjectID
    /\ accounts[2].Enable
    /\ ~IsExpired(accounts[2], now)

------------------------------------------------------------------------------
(***************************************************************************)
(* The store's mutex: refreshes in flight                                  *)
(***************************************************************************)

InFlightFor(i) == {p \in Procs : <<p, i>> \in inflight}

\* The goroutines inside a method that takes s.mu.Lock().
Writers == {p \in Procs : proc[p].pc \in {"run", "refreshing"}}

\* C17: whatever the goroutines call, at most one refresh is in flight per
\* credential, the methods that refresh or change the pool being serialized
\* by the store's mutex: one goroutine at a time is inside one of them, it
\* holds the mutex, and no reader is inside the store with it.
C17_OneRefreshInFlight ==
    /\ \A i \in 1..(Len(accounts) + 1) : Cardinality(InFlightFor(i)) <= 1
    /\ \A r \in inflight : muWriter = r[1] /\ r[2] \in 1..Len(accounts)
    /\ Cardinality(Writers) <= 1
    /\ \A p \in Writers : muWriter = p /\ muReaders = {}

\* A refresh of A is in flight in GetToken while another goroutine is
\* blocked on the mutex.
C17_Witness ==
    /\ \E p \in Procs :
          /\ proc[p] = Refreshing("GetToken", 1, 0)
          /\ inflight = {<<p, 1>>}
    /\ \E q \in Procs : proc[q].pc = "lock"

------------------------------------------------------------------------------
(***************************************************************************)
(* OpenAI streaming: the role chunk                                        *)
(***************************************************************************)

RoleFrames == {i \in 1..Len(frames) : frames[i].kind = "role"}

\* The chunks of a response: every frame but [DONE].
ChunkFrames == {i \in 1..Len(frames) : frames[i].kind # "done"}

\* C18: in every OpenAI streaming response the first chunk carries
\* delta.role = "assistant"; it is emitted once and precedes every content,
\* reasoning, tool-calls, heartbeat and finish chunk.
C18_RoleChunkFirst ==
    (spc \in {"streaming", "finished"} /\ ChunkFrames # {}) =>
        /\ frames[1].kind = "role"
        /\ Cardinality(RoleFrames) = 1

\* What holds instead: the role chunk is written once at most, and before
\* every content, reasoning and tool-calls chunk; a finish chunk comes
\* without it when nothing was written before WriteFinish.
RoleBeforeDeltas ==
    spc \in {"streaming", "finished"} =>
        /\ Cardinality(RoleFrames) <= 1
        /\ \A i \in 1..Len(frames) :
              frames[i].kind \in {"content", "reasoning", "tool_calls", "empty"}
              => (frames[1].kind = "role" /\ i > 1)
        /\ (ChunkFrames # {} /\ frames[1].kind # "role") =>
              /\ frames[1].kind = "finish"
              /\ RoleFrames = {}

\* A response that ends before any part was written: finish, [DONE].
FinishWithoutRole ==
    /\ spc = "finished"
    /\ Len(frames) = 2
    /\ frames[1].kind = "finish"
    /\ frames[2].kind = "done"

------------------------------------------------------------------------------
(***************************************************************************)
(* GenerationConfig: thinking budget and bypass models                     *)
(***************************************************************************)

BuiltFor(dialect) == gpc = "built" /\ genRequest.Dialect = dialect

HasBudget ==
    /\ genResult.GenerationConfig.ThinkingConfig # NoThinkingConfig
    /\ genResult.GenerationConfig.ThinkingConfig[1].ThinkingBudget > 0

\* C19: when the GenerationConfig of a Claude request has a thinking
\* configuration with a positive thinkingBudget, maxOutputTokens is strictly
\* greater than thinkingBudget + 1024.
C19_BudgetBelowMaxTokens ==
    (BuiltFor("claude") /\ HasBudget) =>
        genResult.GenerationConfig.MaxOutputTokens >
            genResult.GenerationConfig.ThinkingConfig[1].ThinkingBudget + 1024

\* What holds instead: maxOutputTokens is at least thinkingBudget + 1024.
BudgetLeavesRoom ==
    (BuiltFor("claude") /\ HasBudget) =>
        genResult.GenerationConfig.MaxOutputTokens >=
            genResult.GenerationConfig.ThinkingConfig[1].ThinkingBudget + 1024

\* max_tokens 3072 on a Claude thinking model: budget 2048, no room to spare.
BudgetReducedToEquality ==
    /\ BuiltFor("claude")
    /\ genRequest.Model = <<"claude", "sonnet", "4", "5", "thinking">>
    /\ genRequest.MaxTokens = 3072
    /\ genRequest.Thinking = NoThinking
    /\ genResult.GenerationConfig.MaxOutputTokens = 3072
    /\ genResult.GenerationConfig.ThinkingConfig[1].ThinkingBudget = 2048

\* C20: a request whose model ID ends in -bypass goes upstream under its
\* alias-resolved model ID and without a thinking configuration in its
\* GenerationConfig.
C20_BypassSuppressesThinking ==
    (BuiltFor("openai") /\ IsBypassModel(genRequest.Model)) =>
        /\ genResult.Model = ResolveModelName(genRequest.Model)
        /\ genResult.GenerationConfig.ThinkingConfig = NoThinkingConfig

\* What holds instead: the model ID is resolved, and the thinking
\* configuration is that of the resolved ID.
BypassAliasResolved ==
    (BuiltFor("openai") /\ IsBypassModel(genRequest.Model)) =>
        /\ genResult.Model = ResolveModelName(genRequest.Model)
        /\ IsAlias(genRequest.Model) => ~IsBypassModel(genResult.Model)
        /\ genResult.GenerationConfig.ThinkingConfig # NoThinkingConfig <=>
              /\ ShouldEnableThinking(genResult.Model)
              /\ ~(IsClaudeModel(genResult.Model) /\ genRequest.Tools)

\* gemini-3-pro-high-bypass goes upstream as gemini-3-pro-high with
\* includeThoughts set.
BypassThinks ==
    /\ BuiltFor("openai")
    /\ genRequest.Model = <<"gemini", "3", "pro", "high", "bypass">>
    /\ genResult.Model = <<"gemini", "3", "pro", "high">>
    /\ genResult.GenerationConfig.ThinkingConfig = ThinkingConfig(TRUE, 0, "")

------------------------------------------------------------------------------
(***************************************************************************)
(* RequireAPIKey: the four envelopes                                       *)
(***************************************************************************)

\* The request presents key k in at least one envelope.
Presents(k) ==
    \/ authRequest.Authorization = Authorization("Bearer ", k)
    \/ authRequest.XApiKey = k
    \/ authRequest.XGoogApiKey = k
    \/ authRequest.QueryKey = k

Decided == authOutcome \in {"next", "401"}

\* C21: with a non-empty configured key, a request that presents it in any
\* one of the four envelopes reaches the route handler, whatever the other
\* envelopes hold; with an empty configured key every request does.
C21_AnyEnvelopeAdmits ==
    Decided =>
        /\ apiKey = "" => authOutcome = "next"
        /\ (apiKey # "" /\ Presents(apiKey)) => authOutcome = "next"

\* What holds instead: the first non-empty envelope, in the order
\* Authorization, x-api-key, x-goog-api-key, key, decides alone.
FirstEnvelopeDecides ==
    Decided =>
        /\ apiKey = "" => authOutcome = "next"
        /\ apiKey # "" =>
              (authOutcome = "next" <=> providedKey(authRequest) = apiKey)

\* The right key in x-api-key behind another Bearer token: refused.
RightKeyBehindBearer ==
    /\ apiKey = "sk-key"
    /\ authRequest.Authorization = Authorization("Bearer ", "sk-other")
    /\ authRequest.XApiKey = "sk-key"
    /\ authOutcome = "401"

------------------------------------------------------------------------------
(***************************************************************************)
(* Route handlers: credential failure                                      *)
(***************************************************************************)

AcquisitionFailed == qpc = "done" /\ acquisition.Err

\* C22: whenever credential acquisition fails, on /v1/chat/completions, on
\* /v1/messages and on /{credential}/v1/chat/completions, the client gets
\* HTTP 503 and no request handler, hence no upstream call, is entered.
C22_CredentialFailureIs503 ==
    AcquisitionFailed => (httpStatus = 503 /\ handler = "")

\* What holds instead: no handler is entered, the status is 503 on the two
\* rotating routes and 404 on the pinned-credential route.
CredentialFailureStatus ==
    AcquisitionFailed =>
        /\ handler = ""
        /\ httpStatus = IF routeRequest.Route = "/{credential}/v1/chat/completions"
                        THEN 404 ELSE 503

\* GetTokenByProjectID fails on the pinned-credential route: 404.
PinnedFailureIs404 ==
    /\ AcquisitionFailed
    /\ acquisition.Call = "GetTokenByProjectID"
    /\ httpStatus = 404

------------------------------------------------------------------------------
(***************************************************************************)
(* Closing frames after a parser or receiver failure                       *)
(***************************************************************************)

FramesOfKind(kind) == {i \in 1..Len(frames) : frames[i].kind = kind}

EventsOfType(type) == {i \in 1..Len(events) : events[i].type = type}

\* OpenAI: one finish chunk, then one [DONE], and nothing after them.
OpenAIClosed ==
    /\ Len(frames) >= 2
    /\ FramesOfKind("finish") = {Len(frames) - 1}
    /\ FramesOfKind("done") = {Len(frames)}

\* Claude: every started block stopped, then one message_delta, then one
\* message_stop, and nothing after them.
ClaudeClosed ==
    /\ Len(events) >= 2
    /\ EventsOfType("message_delta") = {Len(events) - 1}
    /\ EventsOfType("message_stop") = {Len(events)}
    /\ \A i \in EventsOfType("content_block_start") :
          \E j \in EventsOfType("content_block_stop") :
             j > i /\ events[j].index = events[i].index

Closed == IF served = "openai" THEN OpenAIClosed ELSE ClaudeClosed

\* No closing frame of either dialect has been written.
NoClosingFrame ==
    /\ FramesOfKind("finish") = {} /\ FramesOfKind("done") = {}
    /\ EventsOfType("message_delta") = {} /\ EventsOfType("message_stop") = {}

Failed == cause \in {"read error", "receiver error"}

\* C23 as stated: when the parser or its receiver has failed after the SSE
\* response started, the closing frames of the dialect are still emitted,
\* exactly once and last.
C23_ClosedAfterFailure ==
    (apc = "finished" /\ Failed) => Closed

\* C23, amended: after the parser returned, with an error or without, the
\* handler calls WriteFinish / Finish exactly once; the closing frames are
\* emitted exactly once and last unless a write to the client has failed,
\* which is what a receiver error is, and then none of them is emitted.
C23_ClosedUnlessWriteFailed ==
    /\ finishCalls = (IF apc = "finished" THEN 1 ELSE 0)
    /\ apc = "finished" =>
          /\ ~writeFailed => Closed
          /\ writeFailed => NoClosingFrame
    /\ writeFailed <=> cause = "receiver error"
    /\ apc # "finished" => NoClosingFrame

\* A Claude stream whose parser failed with a block open: closed by Finish.
C23_Witness ==
    /\ apc = "finished"
    /\ served = "claude"
    /\ cause = "read error"
    /\ received > 0
    /\ EventsOfType("content_block_start") # {}
    /\ ClaudeClosed

\* The receiver failed on a write: the handler finishes, nothing is emitted.
ReceiverFailedUnclosed ==
    /\ apc = "finished"
    /\ cause = "receiver error"
    /\ ~Closed

------------------------------------------------------------------------------
(***************************************************************************)
(* OpenAI streaming: accumulated FunctionCalls                             *)
(***************************************************************************)

RECURSIVE NamesOfParts(_, _)
\* The names of the FunctionCalls among parts j.. of one chunk, in order.
NamesOfParts(parts, j) ==
    IF j > Len(parts) THEN <<>>
    ELSE (IF parts[j].FunctionCall # NoFunction
          THEN <<parts[j].FunctionCall[1].name>> ELSE <<>>)
         \o NamesOfParts(parts, j + 1)

RECURSIVE NamesOfChunks(_, _)
\* The names of the FunctionCalls of chunks j.., in arrival order.
NamesOfChunks(chunks, j) ==
    IF j > Len(chunks) THEN <<>>
    ELSE NamesOfParts(chunks[j].Parts, 1) \o NamesOfChunks(chunks, j + 1)

NamesOf(tcs) == [i \in 1..Len(tcs) |-> tcs[i].name]

RECURSIVE NamesOfFrames(_, _)
\* The names carried by the tool-calls deltas among frames j.., in order.
NamesOfFrames(fs, j) ==
    IF j > Len(fs) THEN <<>>
    ELSE (IF fs[j].kind = "tool_calls" THEN NamesOf(fs[j].calls) ELSE <<>>)
         \o NamesOfFrames(fs, j + 1)

ToolCallFrames(fs) == {i \in 1..Len(fs) : fs[i].kind = "tool_calls"}

\* The step in which the callback of handleStreamRequest handles one chunk.
CallbackStep == spc = "streaming" /\ Len(upstream') = Len(upstream) + 1

\* What the step of one chunk does with the FunctionCalls.
FlushedOnFinishReason ==
    LET data == upstream'[Len(upstream')]
        acc == NamesOf(toolCalls) \o NamesOfParts(data.Parts, 1)
        new == ToolCallFrames(frames') \ ToolCallFrames(frames)
    IN  IF data.FinishReason = ""
        THEN new = {} /\ NamesOf(toolCalls') = acc
        ELSE /\ toolCalls' = <<>>
             /\ IF acc = <<>> THEN new = {}
                ELSE /\ Cardinality(new) = 1
                     /\ \A i \in new : NamesOf(frames'[i].calls) = acc

\* C24: no tool-calls delta is emitted while upstream has reported no
\* non-empty finishReason; the chunk that carries one has all FunctionCalls
\* accumulated so far emitted together in one tool-calls delta, in arrival
\* order, and empties the accumulator.
C24_ToolCallsFlushedOnFinishReason ==
    /\ [](lastFinishReason(upstream, Len(upstream)) = "" =>
             ToolCallFrames(frames) = {})
    /\ [][CallbackStep => FlushedOnFinishReason]_vars

\* Calls of two chunks, the second with the finishReason, in one delta.
C24_Witness ==
    /\ Len(upstream) = 2
    /\ upstream[1].FinishReason = ""
    /\ NamesOfParts(upstream[1].Parts, 1) # <<>>
    /\ NamesOfParts(upstream[2].Parts, 1) # <<>>
    /\ Cardinality(ToolCallFrames(frames)) = 1
    /\ NamesOfFrames(frames, 1) = NamesOfChunks(upstream, 1)
    /\ Len(NamesOfFrames(frames, 1)) >= 2
    /\ toolCalls = <<>>

\* C25: every FunctionCall part received during a non-bypass OpenAI
\* streaming response has been delivered in a tool-calls delta before the
\* finish chunk, also when upstream never reported a finishReason.
C25_EveryCallDelivered ==
    spc = "finished" =>
        /\ NamesOfFrames(frames, 1) = NamesOfChunks(upstream, 1)
        /\ \A i \in ToolCallFrames(frames) : \A j \in FramesOfKind("finish") : i < j

\* What holds instead: a call is delivered or still in the accumulator, which
\* WriteFinish does not flush.
CallsDeliveredOrPending ==
    /\ spc \in {"streaming", "finished"} =>
          NamesOfFrames(frames, 1) \o NamesOf(toolCalls) = NamesOfChunks(upstream, 1)
    /\ \A i \in ToolCallFrames(frames) : \A j \in FramesOfKind("finish") : i < j

\* The stream ended with a call accumulated and never written.
CallLostAtFinish ==
    /\ spc = "finished"
    /\ toolCalls # <<>>
    /\ ToolCallFrames(frames) = {}
    /\ FramesOfKind("finish") # {}

------------------------------------------------------------------------------
(***************************************************************************)
(* Claude SSE emitter: after Finish, signatures, block indices             *)
(***************************************************************************)

\* C26: message_stop is emitted at most once and no event follows it: a
\* second Finish, and a ProcessPart made after Finish, emit nothing.
C26_NothingAfterMessageStop ==
    /\ Cardinality(EventsOfType("message_stop")) <= 1
    /\ \A i \in EventsOfType("message_stop") : i = Len(events)

\* What holds instead: message_stop and message_delta are emitted at most
\* once, by the first Finish; a later Finish emits nothing.
MessageStopOnce ==
    /\ Cardinality(EventsOfType("message_stop")) <= 1
    /\ Cardinality(EventsOfType("message_delta")) <= 1
    /\ finished <=> EventsOfType("message_stop") # {}

\* A part processed after Finish: its events follow message_stop.
EventAfterMessageStop ==
    /\ finished
    /\ \E i \in EventsOfType("message_stop") :
          /\ i < Len(events)
          /\ events[i + 1].type = "content_block_start"

\* The signatures received so far, and those sent in a signature_delta.
SignaturesReceived ==
    {history[i].sig : i \in {j \in 1..Len(history) : history[j].sig # ""}}

SignaturesSent ==
    {events[i].data : i \in {j \in 1..Len(events) : events[j].kind = "signature_delta"}}

\* The thinking block that is open just before event i, NilIndex when none.
OpenThinkingBefore(i) ==
    LET starts == {j \in 1..(i - 1) :
                      /\ events[j].type = "content_block_start"
                      /\ events[j].kind = "thinking"
                      /\ \A k \in (j + 1)..(i - 1) :
                            ~(events[k].type = "content_block_stop"
                              /\ events[k].index = events[j].index)}
    IN  IF starts = {} THEN NilIndex
        ELSE events[CHOOSE j \in starts : TRUE].index

\* C27: every non-empty thought signature received has been delivered in a
\* signature_delta inside a thinking block by the time message_stop is
\* emitted, whatever part it came on.
C27_EverySignatureDelivered ==
    /\ finished => SignaturesReceived \subseteq SignaturesSent
    /\ \A i \in 1..Len(events) :
          events[i].kind = "signature_delta" =>
             (OpenThinkingBefore(i) # NilIndex
              /\ events[i].index = OpenThinkingBefore(i))

\* What holds instead: a signature_delta lies in the thinking block that is
\* open when it is written and carries a signature received on a thought
\* part; signatures of other parts, and of thought parts with no thinking
\* block open afterwards, are not sent.
SignatureDeltaInThinking ==
    /\ SignaturesSent \subseteq
          {history[i].sig : i \in {j \in 1..Len(history) : history[j].thought}}
    /\ \A i \in 1..Len(events) :
          events[i].kind = "signature_delta" =>
             (OpenThinkingBefore(i) # NilIndex
              /\ events[i].index = OpenThinkingBefore(i))

\* A signature on a thought part with empty text, then Finish: never sent.
SignatureNeverSent ==
    /\ finished
    /\ Len(history) = 2
    /\ history[1].thought /\ history[1].text = "" /\ history[1].sig = "S1"
    /\ SignaturesSent = {}

StartEvents == EventsOfType("content_block_start")

\* The blocks of a kind left open by the first k events.
OpenBlocks(kind, k) ==
    {i \in StartEvents :
        /\ i <= k
        /\ events[i].kind = kind
        /\ \A j \in (i + 1)..k :
              ~(events[j].type = "content_block_stop"
                /\ events[j].index = events[i].index)}

\* C28: the indices of successive content_block_start events are 0, 1, 2,
\* ... in emission order, and at no time is more than one text block or more
\* than one thinking block open.
C28_IndicesInEmissionOrder ==
    /\ \A i \in StartEvents :
          events[i].index = Cardinality({j \in StartEvents : j < i})
    /\ nextIndex = Cardinality(StartEvents)
    /\ \A k \in 1..Len(events) :
          /\ Cardinality(OpenBlocks("text", k)) <= 1
          /\ Cardinality(OpenBlocks("thinking", k)) <= 1

\* A thinking, a text and a tool_use block: indices 0, 1, 2.
C28_Witness ==
    \E i, j, k \in StartEvents :
       /\ i < j /\ j < k
       /\ events[i].kind = "thinking" /\ events[i].index = 0
       /\ events[j].kind = "text" /\ events[j].index = 1
       /\ events[k].kind = "tool_use" /\ events[k].index = 2

------------------------------------------------------------------------------
(***************************************************************************)
(* WriteFinish: flush, finish chunk, [DONE]                                *)
(***************************************************************************)

\* The frame that carries the bytes held in a buffer, none when it is empty.
HeldIn(kind, buffer) ==
    IF buffer = <<>> THEN <<>> ELSE <<[kind |-> kind, bytes |-> buffer]>>

KindAndBytes(fs) == [i \in 1..Len(fs) |-> [kind |-> fs[i].kind, bytes |-> fs[i].bytes]]

\* The step of SSEWriter.WriteFinish.
WriteFinishStep == wpc = "open" /\ wpc' = "finished"

\* The frames WriteFinish adds, given the buffers it found.
FinishFrames ==
    LET new == SubSeq(frames', Len(frames) + 1, Len(frames'))
    IN  /\ SubSeq(frames', 1, Len(frames)) = frames
        /\ KindAndBytes(new) =
              HeldIn("content", contentBuffer)
              \o HeldIn("reasoning", reasoningBuffer)
              \o <<[kind |-> "finish", bytes |-> <<>>],
                   [kind |-> "done", bytes |-> <<>>]>>
        /\ new[Len(new) - 1].reason = "stop"
        /\ new[Len(new) - 1].usage \in {"nil", "usage"}
        /\ contentBuffer' = <<>>
        /\ reasoningBuffer' = <<>>

\* C29: WriteFinish emits the bytes still held in the content buffer and in
\* the reasoning buffer, then exactly one chunk with the finish reason and
\* the usage, then [DONE] as the last frame.
C29_FlushFinishDone == [][WriteFinishStep => FinishFrames]_vars

\* Both buffers held bytes: content, reasoning, finish, [DONE].
C29_Witness ==
    /\ wpc = "finished"
    /\ Len(frames) >= 4
    /\ frames[Len(frames) - 3].kind = "content"
    /\ frames[Len(frames) - 3].by = "flush"
    /\ frames[Len(frames) - 2].kind = "reasoning"
    /\ frames[Len(frames) - 2].by = "flush"
    /\ frames[Len(frames) - 1].kind = "finish"
    /\ frames[Len(frames)].kind = "done"

------------------------------------------------------------------------------
(***************************************************************************)
(* WithRetry: length of the waits                                          *)
(***************************************************************************)

\* C30: the wait between attempt n and attempt n + 1 (n counted from 1) is at
\* most min(n * 1 s, 5 s), whatever retryDelay the upstream error carried.
C30_WaitAtMostBackoff ==
    /\ \A n \in 1..Len(waits) : waits[n] <= min(1000 * n, 5000)
    /\ rpc = "wait" => delay <= min(1000 * (attempt + 1), 5000)

\* What holds instead: the wait is the upstream retryDelay when the error
\* carries one, of any length, and min(n * 1 s, 5 s) only when it carries none.
WaitIsUpstreamDelayOrBackoff ==
    \A n \in 1..Len(waits) :
       waits[n] = IF outcomes[n].RetryDelay # 0 THEN outcomes[n].RetryDelay
                  ELSE min(1000 * n, 5000)

\* A 429 with retryDelay "7s": WithRetry waited 7 seconds after attempt 1.
WaitedSevenSeconds ==
    /\ Len(waits) >= 1
    /\ waits[1] = 7000
    /\ outcomes[1].Status = 429

\* ---- WithRetry: attempts, immediate returns, cancellation (C31, C32, C33, C38) ----

\* err is an APIError that WithRetry retries.
Retryable(err) ==
    /\ err.kind = "api"
    /\ err.Status # 401
    /\ err.Status \in RetryStatusCodes

EveryAttemptRetryable == \A i \in 1..Len(outcomes) : Retryable(outcomes[i])

\* C31: for a configured maximum of N >= 0 attempts WithRetry never invokes the
\* operation more than N times; when every attempt fails with a retryable
\* APIError and the context is not cancelled, it returns after exactly N
\* invocations and what it returns is the error of the last one.
C31_AtMostNAttempts ==
    /\ calls <= RetryMaxAttempts
    /\ (rpc = "done" /\ ~cancelled /\ RetryMaxAttempts >= 1 /\ EveryAttemptRetryable)
          => /\ calls = RetryMaxAttempts
             /\ Len(outcomes) = RetryMaxAttempts
             /\ retryResult = outcomes[RetryMaxAttempts]

C31_Witness ==
    /\ rpc = "done"
    /\ ~cancelled
    /\ RetryMaxAttempts = 3
    /\ calls = 3
    /\ EveryAttemptRetryable
    /\ retryResult = outcomes[3]
    /\ retryResult.Status = 429

\* C32: when the operation's first error is not an APIError, or is an APIError
\* whose status is not in the retryable set, WithRetry has invoked the
\* operation exactly once, has not waited, and returns that error.
C32_ImmediateReturn ==
    (/\ rpc = "done"
     /\ Len(outcomes) >= 1
     /\ \/ outcomes[1].kind = "other"
        \/ outcomes[1].kind = "api" /\ outcomes[1].Status \notin RetryStatusCodes)
       => /\ calls = 1
          /\ waits = <<>>
          /\ retryResult = outcomes[1]

C32_Witness ==
    /\ rpc = "done"
    /\ RetryMaxAttempts = 3
    /\ RetryStatusCodes = {429}
    /\ calls = 1
    /\ waits = <<>>
    /\ outcomes[1].kind = "api"
    /\ outcomes[1].Status = 500
    /\ retryResult = outcomes[1]

\* C33: when the context is cancelled while WithRetry is waiting between
\* attempts (the timer has not fired), the next step of WithRetry is its
\* return of the context's error: the wait is not completed and the operation
\* is not invoked again.
C33_CancelAbortsWait ==
    [][(rpc = "wait" /\ cancelled /\ ~timerFired)
          => /\ rpc' = "done"
             /\ retryResult' = CtxErr
             /\ calls' = calls
             /\ waits' = waits
             /\ ~timerFired']_vars

C33_Witness ==
    /\ rpc = "done"
    /\ cancelled
    /\ ~timerFired
    /\ retryResult = CtxErr
    /\ calls = 1
    /\ waits = <<>>
    /\ Retryable(outcomes[1])

\* C38: WithRetry returns nil only after at least one invocation of the
\* operation, the last of which succeeded.
C38_SuccessOnlyAfterSuccess ==
    (rpc = "done" /\ retryResult = Nil)
       => /\ calls >= 1
          /\ outcomes[Len(outcomes)] = Nil

\* With no attempts configured WithRetry returns nil without any invocation.
SuccessWithoutInvocation ==
    /\ rpc = "done"
    /\ RetryMaxAttempts = 0
    /\ retryResult = Nil
    /\ calls = 0

\* ---- The credential of a request under concurrent store changes (C34, C35) ----

\* The slice s.accounts is the first len(s.accounts) slots of its array.
BackingHoldsAccounts ==
    /\ Len(accounts) <= Len(backing)
    /\ sliceOf(backing, Len(accounts)) = accounts

\* C34: the credential a request holds keeps denoting the account that was
\* handed out (same email, project id and tokens) while Delete, Add, Clear or
\* a refresh of another entry runs on the pool.
C34_TokenDenotesSameAccount ==
    token # 0 =>
        /\ Deref.Email = handedOut.Email
        /\ Deref.ProjectID = handedOut.ProjectID
        /\ Deref.AccessToken = handedOut.AccessToken
        /\ Deref.Timestamp = handedOut.Timestamp
        /\ Deref.ExpiresIn = handedOut.ExpiresIn

\* The request was handed account A and its pointer now reads account B.
TokenDenotesAnotherAccount ==
    /\ token # 0
    /\ tokenShared
    /\ handedOut.Email = "A"
    /\ Deref.Email = "B"

\* C35: whenever the pool is non-empty the round-robin cursor is an index of
\* the list, 0 <= cursor < pool size, whatever Add, Delete, Clear, SetEnable
\* and GetToken calls have run; on an empty pool the cursor is 0.
C35_CursorInRange ==
    /\ currentIndex >= 0
    /\ Len(accounts) > 0 => currentIndex < Len(accounts)
    /\ Len(accounts) = 0 => currentIndex = 0

\* A Delete has shrunk the pool to one entry and a GetToken call is about to
\* index it with the cursor.
C35_Witness ==
    /\ Len(accounts) = 1
    /\ currentIndex = 0
    /\ \E p \in Procs : /\ proc[p].pc = "run"
                        /\ proc[p].op = "GetToken"
                        /\ proc[p].attempts = 0

\* ---- Tool messages in convertMessages (C36) ----

\* The Contents after the first k messages.
Converted(k) == convertMessages(SubSeq(openaiMessages, 1, k))

IsToolAt(k) == k \in 1..Len(openaiMessages) /\ openaiMessages[k].Role = "tool"

\* i..j is a maximal run of tool messages that follows an assistant message.
RunAfterAssistant(i, j) ==
    /\ 2 <= i /\ i <= j /\ j <= Len(openaiMessages)
    /\ \A k \in i..j : IsToolAt(k)
    /\ ~IsToolAt(j + 1)
    /\ openaiMessages[i - 1].Role = "assistant"

\* The FunctionResponse parts of the tool messages i..j, in order.
ResponsesOf(i, j) ==
    [k \in 1..(j - i + 1) |-> responsePart(Converted(i + k - 2), openaiMessages[i + k - 1])]

\* The run i..j made exactly one user Content, right after the model Content
\* of the assistant message, holding the run's responses in order.
OneUserTurnAfterModel(i, j) ==
    LET before == Converted(i - 1)
        after == Converted(j)
    IN  /\ Len(before) > 0
        /\ before[Len(before)].Role = "model"
        /\ Len(after) = Len(before) + 1
        /\ SubSeq(after, 1, Len(before)) = before
        /\ after[Len(after)].Role = "user"
        /\ [k \in 1..Len(after[Len(after)].Parts) |-> after[Len(after)].Parts[k].FunctionResponse]
              = [k \in 1..(j - i + 1) |-> ResponsesOf(i, j)[k].FunctionResponse]

\* The position of the last Content with a FunctionCall of the id, 0 when none.
AnsweredTurn(cs, id) ==
    LET S == {n \in 1..Len(cs) : \E p \in 1..Len(cs[n].Parts) :
                                    /\ cs[n].Parts[p].FunctionCall # NoFunctionCall
                                    /\ cs[n].Parts[p].FunctionCall[1].ID = id}
    IN  IF S = {} THEN 0 ELSE CHOOSE n \in S : \A m \in S : m <= n

\* Tool message k landed in a Content after the model turn it answers.
AfterAnsweredTurn(k) ==
    AnsweredTurn(Converted(k - 1), openaiMessages[k].ToolCallID) < Len(Converted(k))

\* The assistant message produced a model Content: it has reasoning, text or
\* tool calls.
ProducedContent(msg) == msg.Reasoning # "" \/ msg.Content # "" \/ msg.ToolCalls # <<>>

\* C36 as stated: every maximal run of tool messages that follows an
\* assistant message makes exactly one user Content right after that
\* message's model Content, with one FunctionResponse per tool message in
\* order, and no tool message lands before the model turn it answers.
C36_RunAfterAnyAssistant ==
    /\ openaiContents = Converted(opc)
    /\ opc = Len(openaiMessages) =>
          /\ \A i, j \in 1..Len(openaiMessages) :
                RunAfterAssistant(i, j) => OneUserTurnAfterModel(i, j)
          /\ \A k \in 1..Len(openaiMessages) : IsToolAt(k) => AfterAnsweredTurn(k)

\* C36, amended: the same for the runs that follow an assistant message with
\* reasoning, text or tool calls; the others are dealt with below.
C36_RunAfterModelTurn ==
    /\ openaiContents = Converted(opc)
    /\ opc = Len(openaiMessages) =>
          /\ \A i, j \in 1..Len(openaiMessages) :
                (RunAfterAssistant(i, j) /\ ProducedContent(openaiMessages[i - 1]))
                   => OneUserTurnAfterModel(i, j)
          /\ \A i, j \in 1..Len(openaiMessages) :
                (RunAfterAssistant(i, j) /\ ~ProducedContent(openaiMessages[i - 1]))
                   => /\ Converted(i - 1) = Converted(i - 2)
                      /\ Converted(j) = convertMessages(
                            SubSeq(openaiMessages, 1, i - 2) \o SubSeq(openaiMessages, i, j))
          /\ \A k \in 1..Len(openaiMessages) : IsToolAt(k) => AfterAnsweredTurn(k)

\* Two tool messages after an assistant turn with two calls: one user turn
\* with the two responses, named after the calls.
C36_Witness ==
    /\ opc = 4
    /\ openaiMessages[2] = CallingAssistant
    /\ openaiMessages[3] = ToolMessage("c1")
    /\ openaiMessages[4] = ToolMessage("c2")
    /\ openaiMessages[1].Role = "user"
    /\ Len(openaiContents) = 3
    /\ openaiContents[2].Role = "model"
    /\ openaiContents[3] = Content("user",
          <<Part("", FALSE, NoFunctionCall, FunctionResponse("c1", "f")),
            Part("", FALSE, NoFunctionCall, FunctionResponse("c2", "g"))>>)

\* A tool message after an empty assistant message joined the user turn
\* before it.
ResponseJoinsEarlierUserTurn ==
    /\ opc = 3
    /\ openaiMessages[1].Role = "user"
    /\ openaiMessages[2] = EmptyAssistant
    /\ openaiMessages[3] = ToolMessage("c1")
    /\ Len(openaiContents) = 1
    /\ Len(openaiContents[1].Parts) = 2

\* ---- Signatures through sanitizeRequestContents (C37) ----

\* A part with some payload: text, call, response, thought or signature.
HasPayload(part) ==
    \/ part.Text # ""
    \/ part.FunctionCall # NoFunctionCall
    \/ part.FunctionResponse # NoFunctionResponse
    \/ part.Thought
    \/ part.ThoughtSignature # ""

\* The parts with a payload of the Contents, each with the position of its
\* Content among those that have such parts.
RECURSIVE PayloadParts(_, _, _)
PayloadParts(cs, i, n) ==
    IF i > Len(cs) THEN <<>>
    ELSE LET kept == SelectSeq(cs[i].Parts, HasPayload)
         IN  IF kept = <<>> THEN PayloadParts(cs, i + 1, n)
             ELSE [k \in 1..Len(kept) |-> <<n, kept[k]>>] \o PayloadParts(cs, i + 1, n + 1)

\* All parts of the Contents, each with the position of its Content.
RECURSIVE PlacedParts(_, _)
PlacedParts(cs, i) ==
    IF i > Len(cs) THEN <<>>
    ELSE [k \in 1..Len(cs[i].Parts) |-> <<i, cs[i].Parts[k]>>] \o PlacedParts(cs, i + 1)

C39_NoCandidatesAnswered ==
    (kpc = "done" /\ upstreamCandidates = <<>>)
       => /\ completion.kind = "completion"
          /\ completion.Content = <<>>
          /\ completion.FinishReason = "stop"

\* The handler panicked on a response without candidates.
PanicOnNoCandidates ==
    /\ kpc = "done"
    /\ upstreamCandidates = <<>>
    /\ completion = Panicked

\* A candidate without parts is answered with empty content and "stop".
EmptyCandidateAnswered ==
    (kpc = "done" /\ upstreamCandidates = <<<<>>>>)
       => completion = OpenAIChatCompletion(<<>>, <<>>, <<>>, "stop")

\* ---- Lines of the upstream body and the receiver (C40) ----

\* The number of lines before the first "data: [DONE]" line, all of them when
\* there is none.
BeforeDone ==
    LET S == {j \in 1..Len(sseLines) : sseLines[j].done}
    IN  IF S = {} THEN Len(sseLines) ELSE (CHOOSE j \in S : \A k \in S : j <= k) - 1

WellFormed(line) == line.prefix /\ line.json

\* The chunks of the well-formed data lines among the first n, in order.
RECURSIVE ChunksOf(_, _)
ChunksOf(lines, n) ==
    IF n = 0 THEN <<>>
    ELSE IF WellFormed(lines[n]) THEN Append(ChunksOf(lines, n - 1), lines[n].chunk)
    ELSE ChunksOf(lines, n - 1)

\* C40: when the parser returns, the receiver has been passed every
\* well-formed data line that precedes "data: [DONE]" or the end of the body,
\* a last line without newline included, once each and in order, and no line
\* after "data: [DONE]".
C40_EveryLineDelivered ==
    ppc = "done" => delivered = ChunksOf(sseLines, BeforeDone)

\* What the parser does: the same for the lines that end with a newline.
TerminatedLinesDelivered ==
    ppc = "done" =>
        delivered = ChunksOf(sseLines,
                             IF BeforeDone = Len(sseLines) /\ ~lastTerminated
                             THEN Len(sseLines) - 1 ELSE BeforeDone)

\* The body ended with a data line without newline and the parser returned
\* without passing it on.
LastLineDropped ==
    /\ ppc = "done"
    /\ Len(sseLines) = 2
    /\ sseLines[1] = DataLine(1)
    /\ sseLines[2] = DataLine(2)
    /\ ~lastTerminated
    /\ delivered = <<1>>

====
